---- MODULE Spec2Model ----
(***************************************************************************)
(* A model of the reflexsive command line analysis pipeline                *)
(* (src/src/reflexsive/cli): source scanning (collect_classes), hierarchy  *)
(* resolution (get_valid_reflexsive_classes and the three prune_* steps)   *)
(* and rule based validation (get_validation_warnings).                    *)
(*                                                                         *)
(* Conventions.  A dotted name 'a.b.C' is the sequence <<"a","b","C">> of  *)
(* its parts, so '.'.join is concatenation and split('.') is the identity  *)
(* on the representation; the empty string is <<>>.  A Python constant is  *)
(* a record [t |-> type name, v |-> text].                                 *)
(***************************************************************************)
EXTENDS Integers, Sequences, FiniteSets, TLC

VARIABLES
    tree,               \* the source tree under the scanned root (input)
    pc,                 \* position in the running command
    classes,            \* the Set[ClassInfo] being built and pruned
    exclude_inherited,  \* toggle passed to prune_aliasless_classes
    exclude_metaclass,  \* toggle passed to prune_aliasless_classes
    exit,               \* get_validation_warnings(exit=...)
    strict,             \* get_validation_warnings(strict=...)
    minimum_warning_level,
    todo,               \* sorted classes still to validate
    cur,                \* the class being validated (<<c>>) or <<>>
    funcs_left,         \* functions of cur not yet iterated
    alias_map,          \* the per class alias_map, in insertion order
    warnings,           \* the list add_warning appends to
    result,             \* what the command returned
    shown,              \* the Warning whose message is read (<<w>>) or <<>>
    message_out,        \* what reading shown.message gave (<<r>>) or <<>>
    full_stub_text,     \* the persisted interface text, a list of lines
    class_name,         \* stub_update_class(..., class_name, ...)
    method_stubs,       \* stub_update_class(..., method_stubs)
    previous_texts,     \* the texts the merges so far were given
    target_set,         \* get_subclass_qual_names(targets, ...)
    bfs_queue,          \* its deque, queue
    found_names,        \* its result set
    enqueued            \* every name put on the deque so far, in order

vars == <<tree, pc, classes, exclude_inherited, exclude_metaclass, exit, strict,
          minimum_warning_level, todo, cur, funcs_left, alias_map, warnings, result,
          shown, message_out, full_stub_text, class_name, method_stubs, previous_texts,
          target_set, bfs_queue, found_names, enqueued>>

bfs_vars == <<target_set, bfs_queue, found_names, enqueued>>

stub_vars == <<full_stub_text, class_name, method_stubs, previous_texts>>

----------------------------------------------------------------------------
(* Bounds of the model.                                                    *)

MaxClasses == 2
MaxAliases == 2
MaxKw == 2
\* back-references in one message template
MaxRefs == 2
\* lines in the body of the class block of a persisted text
MaxBody == 3
\* incoming method stubs of one merge
MaxStubs == 2
\* merges applied to one text
MaxMerges == 2
\* class records in a class set given to the subclass search
MaxGraph == 2

----------------------------------------------------------------------------
(* Small helpers.                                                          *)

Last(s) == s[Len(s)]

Front(s) == SubSeq(s, 1, Len(s) - 1)

Range(s) == {s[i] : i \in DOMAIN s}

\* s[:-k] for k > 0
DropLast(s, k) == SubSeq(s, 1, IF Len(s) > k THEN Len(s) - k ELSE 0)

RECURSIVE SetToSeq(_)
SetToSeq(S) == IF S = {} THEN <<>>
               ELSE LET x == CHOOSE y \in S : TRUE IN <<x>> \o SetToSeq(S \ {x})

\* all sequences over S of length at most n
RECURSIVE SeqsUpTo(_, _)
SeqsUpTo(S, n) ==
    IF n = 0 THEN {<<>>}
    ELSE LET shorter == SeqsUpTo(S, n - 1)
         IN shorter \cup {Append(s, x) : s \in {t \in shorter : Len(t) = n - 1}, x \in S}

----------------------------------------------------------------------------
(* Python constants (ast.Constant values).                                 *)

None == [t |-> "NoneType", v |-> "None"]

Str(s) == [t |-> "str", v |-> s]

IntFive == [t |-> "int", v |-> "5"]

\* isinstance(c, str)
IsStr(c) == c.t = "str"

\* bool(c): None and the empty string are falsy
Truthy(c) == c.t # "NoneType" /\ ~(c.t = "str" /\ c.v = "")

----------------------------------------------------------------------------
(* statics.py is not part of the sources at hand: the two seed lists are   *)
(* taken from the specification (the aliasing base class and its           *)
(* controlling metaclass) and from the names the test project imports.     *)

VALID_REFLEXSIVE_MODULE_PATHS ==
    {<<"reflexsive", "Reflexsive">>, <<"reflexsive", "core", "Reflexsive">>}

VALID_REFLEXSIVEMETA_MODULE_PATHS ==
    {<<"reflexsive", "ReflexsiveMeta">>, <<"reflexsive", "core", "ReflexsiveMeta">>}

----------------------------------------------------------------------------
(* _split_qual_name.py                                                     *)

\* qual_name.rsplit('.', 1): (module part, real name)
split_qual_name(q) == IF Len(q) >= 2 THEN <<Front(q), Last(q)>> ELSE <<<<>>, q[1]>>

----------------------------------------------------------------------------
(* Source scanner: helpers.py, collect_classes and what it calls.          *)
(* An expression is [root, parts]: root = "name" for a Name or an          *)
(* Attribute chain that ends in a Name (parts = the name, then the         *)
(* attributes), root = "other" for a chain on any other expression (parts  *)
(* = the attributes only) and for any other expression (parts = <<>>).     *)

Unknown == <<"<unknown>">>

resolve_name(expr) == IF expr.parts = <<>> THEN Unknown ELSE expr.parts

get_module_name(path) == path.dir \o <<path.stem>>

get_decorator_name(expr) == IF expr.parts = <<>> THEN "<unknown>" ELSE Last(expr.parts)

\* imports is the list of bindings in statement order; a later binding of
\* the same key overwrites an earlier one
HasImport(imports, key) == \E i \in DOMAIN imports : imports[i].key = key

GetImport(imports, key) ==
    LET i == CHOOSE j \in DOMAIN imports :
                 /\ imports[j].key = key
                 /\ \A k \in DOMAIN imports : imports[k].key = key => k <= j
    IN imports[i].full

get_decorator_qual_name(expr, imports) ==
    IF expr.parts = <<>> THEN Unknown
    ELSE IF expr.root = "name"
         THEN (IF HasImport(imports, <<expr.parts[1]>>)
               THEN GetImport(imports, <<expr.parts[1]>>)
               ELSE <<expr.parts[1]>>) \o Tail(expr.parts)
         ELSE Unknown \o expr.parts

get_func_arg_names(a) == a.args \o a.posonlyargs \o a.vararg \o a.kwonlyargs \o a.kwarg

\* one import statement of the module body
ImportBinding(stmt, module_name) ==
    IF stmt.from
    THEN LET base_module == IF stmt.level = 0 THEN stmt.module
                            ELSE DropLast(module_name, stmt.level) \o stmt.module
         IN [key  |-> IF stmt.asname # <<>> THEN stmt.asname ELSE stmt.name,
             full |-> base_module \o stmt.name]
    ELSE [key  |-> IF stmt.asname # <<>> THEN stmt.asname ELSE stmt.name,
          full |-> stmt.name]

FileImports(file) ==
    [i \in DOMAIN file.imports |-> ImportBinding(file.imports[i], get_module_name(file.path))]

\* ast.walk is breadth first: the classes of the module body come before
\* the classes nested in them; file.classes is in document order
WalkOrder(cs) ==
    SelectSeq(cs, LAMBDA c : c.depth = 0) \o SelectSeq(cs, LAMBDA c : c.depth > 0)

\* one declared base, lines 287-300
ResolveBase(expr, imports, local_class_names, module_name) ==
    LET name == resolve_name(expr)
    IN IF HasImport(imports, <<name[1]>>)
       THEN GetImport(imports, <<name[1]>>) \o Tail(name)
       ELSE IF Len(name) = 1 /\ name[1] \in local_class_names
            THEN module_name \o name
            ELSE name

\* the metaclass keyword, lines 302-313
ResolveMetaclass(kw, imports) ==
    IF kw = <<>> THEN <<"type">>
    ELSE LET resolved == resolve_name(kw[1])
         IN IF HasImport(imports, resolved) THEN GetImport(imports, resolved) ELSE resolved

\* variant of AliasInfoOf: a decorator that is not called gets an empty
\* remapping instead of None
AliasInfoOfAlwaysMapped(deco, imports) ==
    [qual_name   |-> get_decorator_qual_name(deco.expr, imports),
     alias_name  |-> IF deco.call /\ SelectSeq(deco.args, LAMBDA x : x.const) # <<>>
                     THEN SelectSeq(deco.args, LAMBDA x : x.const)[1].value ELSE None,
     arg_mapping |-> [isNone |-> FALSE,
                      items  |-> [i \in DOMAIN SelectSeq(deco.keywords,
                                                    LAMBDA k : k.named /\ k.value.const) |->
                                    [param     |-> SelectSeq(deco.keywords,
                                                     LAMBDA k : k.named /\ k.value.const)[i].arg,
                                     remapping |-> SelectSeq(deco.keywords,
                                                     LAMBDA k : k.named /\ k.value.const)[i]
                                                       .value.value]]],
     has_paren   |-> deco.call,
     row         |-> deco.row]

\* one decorator named 'alias', lines 334-359
AliasInfoOf(deco, imports) ==
    LET args_validated   == SelectSeq(deco.args, LAMBDA a : a.const)
        kwargs_validated == SelectSeq(deco.keywords, LAMBDA k : k.named /\ k.value.const)
    IN [qual_name   |-> get_decorator_qual_name(deco.expr, imports),
        alias_name  |-> IF deco.call /\ args_validated # <<>>
                        THEN args_validated[1].value ELSE None,
        arg_mapping |-> IF deco.call
                        THEN [isNone |-> FALSE,
                              items  |-> [i \in DOMAIN kwargs_validated |->
                                            [param     |-> kwargs_validated[i].arg,
                                             remapping |-> kwargs_validated[i].value.value]]]
                        ELSE [isNone |-> TRUE, items |-> <<>>],
        has_paren   |-> deco.call,
        row         |-> deco.row]

FunctionInfoOf(func, cname, module_name, imports) ==
    LET decos == SelectSeq(func.decorator_list,
                           LAMBDA d : get_decorator_name(d.expr) = "alias")
    IN [qual_name  |-> module_name \o <<cname, func.name>>,
        row        |-> func.row,
        parameters |-> Range(get_func_arg_names(func.args)),
        aliases    |-> [i \in DOMAIN decos |-> AliasInfoOf(decos[i], imports)]]

\* the ClassInfo of the i-th class definition in walk order
ClassInfoOf(file, walk, i) ==
    LET node        == walk[i]
        module_name == get_module_name(file.path)
        imports     == FileImports(file)
        local_class_names == {walk[j].name : j \in 1..i}
    IN [qual_name |-> module_name \o <<node.name>>,
        path      |-> file.path,
        row       |-> node.row,
        metaclass |-> ResolveMetaclass(node.metaclass, imports),
        bases     |-> {ResolveBase(b, imports, local_class_names, module_name) :
                          b \in Range(node.bases)},
        functions |-> {FunctionInfoOf(f, node.name, module_name, imports) :
                          f \in Range(node.body)},
        is_valid_reflexsive |-> FALSE]

\* a file that does not parse is skipped
FileClasses(file) ==
    IF ~file.ok THEN {}
    ELSE LET walk == WalkOrder(file.classes)
         IN {ClassInfoOf(file, walk, i) : i \in DOMAIN walk}

collect_classes(root) == UNION {FileClasses(f) : f \in Range(root)}

\* what reading and parsing the files raises past the except clause of
\* line 253, which names SyntaxError only
Uncaught(root) == {f.error : f \in Range(root)} \ {"", "SyntaxError"}

\* variant of ClassEq: only the line is compared
ClassEqWithoutPath(c, d) == c.row = d.row

\* ClassInfo.__eq__ (info.py, lines 273-283); column, decl_line and
\* full_impl are fixed by path and row
ClassEq(c, d) ==
    /\ c.qual_name = d.qual_name
    /\ c.path = d.path
    /\ c.row = d.row

\* info.add(c), line 368: an element equal to c keeps its place
SetAdd(info, c) ==
    IF \E d \in info : ClassEq(d, c) THEN info ELSE info \cup {c}

\* the walk of one file, lines 278-371
RECURSIVE CollectFile(_, _, _, _)
CollectFile(info, file, walk, i) ==
    IF i > Len(walk) THEN info
    ELSE CollectFile(SetAdd(info, ClassInfoOf(file, walk, i)), file, walk, i + 1)

\* the loop of lines 247-373 with rglob yielding the files in this order
RECURSIVE CollectInOrder(_, _, _)
CollectInOrder(order, i, info) ==
    IF i > Len(order) THEN info
    ELSE IF ~order[i].ok THEN CollectInOrder(order, i + 1, info)
    ELSE CollectInOrder(order, i + 1,
                        CollectFile(info, order[i], WalkOrder(order[i].classes), 1))

----------------------------------------------------------------------------
(* Hierarchy resolver: helpers.py, lines 375-487.                          *)

\* base_to_classes.get(current, []): the records that list current as a base
SubclassesOf(current, cs) == {c \in cs : current \in c.bases}

\* variant of NewlyFound: the search finds nothing once it has a result
FoundWhileEmpty(current, res, cs) ==
    IF res = {} THEN {c.qual_name : c \in SubclassesOf(current, cs)} ELSE {}

\* one pass of the while loop, lines 405-410: the subclasses of current
\* whose name is not in the result yet
NewlyFound(current, res, cs) == {c.qual_name : c \in SubclassesOf(current, cs)} \ res

\* the while loop of get_subclass_qual_names: queue is the deque, res the
\* result set; a name is enqueued when it is first added to the result
RECURSIVE BfsLoop(_, _, _)
BfsLoop(queue, res, cs) ==
    IF queue = <<>> THEN res
    ELSE LET found == {c.qual_name : c \in SubclassesOf(Head(queue), cs)} \ res
         IN BfsLoop(Tail(queue) \o SetToSeq(found), res \cup found, cs)

\* variant: a search that stops at the direct subclasses
DirectSubclassesOnly(targets, cs) ==
    UNION {{c.qual_name : c \in SubclassesOf(t, cs)} : t \in targets}

get_subclass_qual_names(targets, cs) == BfsLoop(SetToSeq(targets), {}, cs)

\* variant: a resolver whose metaclass step assigns instead of updating
ValidClassesMetaclassOverwrites(cs, excl_inherited, excl_metaclass) ==
    IF ~excl_metaclass
    THEN {c.qual_name : c \in {d \in cs : d.metaclass \in VALID_REFLEXSIVEMETA_MODULE_PATHS}}
    ELSE VALID_REFLEXSIVE_MODULE_PATHS
           \cup (IF ~excl_inherited
                 THEN get_subclass_qual_names(VALID_REFLEXSIVE_MODULE_PATHS, cs) ELSE {})

get_valid_reflexsive_classes(cs, excl_inherited, excl_metaclass) ==
    VALID_REFLEXSIVE_MODULE_PATHS
      \cup (IF ~excl_inherited
            THEN get_subclass_qual_names(VALID_REFLEXSIVE_MODULE_PATHS, cs) ELSE {})
      \cup (IF ~excl_metaclass
            THEN {c.qual_name : c \in {d \in cs : d.metaclass \in VALID_REFLEXSIVEMETA_MODULE_PATHS}}
            ELSE {})

\* variant of AliasEq: the line of the decorator is compared too
AliasEqWithLocation(a, b) ==
    /\ a.qual_name = b.qual_name
    /\ a.alias_name = b.alias_name
    /\ a.has_paren = b.has_paren
    /\ a.row = b.row

\* AliasInfo.__hash__ (info.py, lines 71-78): the hash of this tuple
AliasHash(a) == <<a.qual_name, a.alias_name, a.has_paren>>

\* AliasInfo.__eq__: location, declaration text and remapping are left out
AliasEq(a, b) ==
    /\ a.qual_name = b.qual_name
    /\ a.alias_name = b.alias_name
    /\ a.has_paren = b.has_paren

\* set.add(a) on a set of AliasInfo: found by hash, then by __eq__
AliasSetAdd(S, a) ==
    IF \E e \in S : AliasHash(e) = AliasHash(a) /\ AliasEq(e, a) THEN S ELSE S \cup {a}

\* list.remove(x): drops the first element equal to x
RemoveFirst(list, x) ==
    LET i == CHOOSE j \in DOMAIN list :
                 AliasEq(list[j], x) /\ \A k \in 1..(j - 1) : ~AliasEq(list[k], x)
    IN SubSeq(list, 1, i - 1) \o SubSeq(list, i + 1, Len(list))

\* variant: a pruning test without the simple name fallback
AliasClassIsValidQualifiedOnly(alias, valid_classes_for_alias) ==
    split_qual_name(alias.qual_name)[1] \in valid_classes_for_alias

\* the test of lines 444-447, negated: the alias stays
AliasClassIsValid(alias, valid_classes_for_alias) ==
    LET alias_class_name == split_qual_name(alias.qual_name)[1]
        valid_top_level_classes_for_alias ==
            {<<split_qual_name(c)[2]>> : c \in valid_classes_for_alias}
    IN \/ alias_class_name \in valid_classes_for_alias
       \/ alias_class_name \in valid_top_level_classes_for_alias

\* for alias in list(func.aliases): ... func.aliases.remove(alias)
RECURSIVE PruneAliasList(_, _, _, _)
PruneAliasList(snapshot, i, aliases, valid) ==
    IF i > Len(snapshot) THEN aliases
    ELSE PruneAliasList(snapshot, i + 1,
                        IF AliasClassIsValid(snapshot[i], valid) THEN aliases
                        ELSE RemoveFirst(aliases, snapshot[i]),
                        valid)

\* variant of prune_invalid_aliases: the capable classes are flagged already
PruneInvalidAliasesAndFlag(cs) ==
    LET valid == get_valid_reflexsive_classes(cs, FALSE, FALSE)
    IN {[c EXCEPT !.functions =
            {[f EXCEPT !.aliases = PruneAliasList(f.aliases, 1, f.aliases, valid)] :
                f \in c.functions},
                  !.is_valid_reflexsive = c.qual_name \in valid] : c \in cs}

prune_invalid_aliases(cs) ==
    LET valid == get_valid_reflexsive_classes(cs, FALSE, FALSE)
    IN {[c EXCEPT !.functions =
            {[f EXCEPT !.aliases = PruneAliasList(f.aliases, 1, f.aliases, valid)] :
                f \in c.functions}] : c \in cs}

\* variant of prune_aliasless_functions: nothing is removed
KeepAliaslessFunctions(cs) == cs

prune_aliasless_functions(cs) ==
    {[c EXCEPT !.functions = {f \in c.functions : Len(f.aliases) # 0}] : c \in cs}

\* variant: a class without functions is dropped even when it is capable
PruneAliaslessClassesNeedsFunctions(cs, excl_inherited, excl_metaclass) ==
    LET valid_reflexsive_classes ==
            get_valid_reflexsive_classes(cs, excl_inherited, excl_metaclass)
        flagged == {[c EXCEPT !.is_valid_reflexsive =
                        IF c.qual_name \in valid_reflexsive_classes THEN TRUE ELSE @] : c \in cs}
    IN {c \in flagged : c.functions # {}}

\* variant: classes are filtered but never flagged
PruneAliaslessClassesUnflagged(cs, excl_inherited, excl_metaclass) ==
    LET valid_reflexsive_classes ==
            get_valid_reflexsive_classes(cs, excl_inherited, excl_metaclass)
    IN {c \in cs : c.functions # {} \/ c.qual_name \in valid_reflexsive_classes}

prune_aliasless_classes(cs, excl_inherited, excl_metaclass) ==
    LET valid_reflexsive_classes ==
            get_valid_reflexsive_classes(cs, excl_inherited, excl_metaclass)
        flagged == {[c EXCEPT !.is_valid_reflexsive =
                        IF c.qual_name \in valid_reflexsive_classes THEN TRUE ELSE @] : c \in cs}
    IN {c \in flagged : c.functions # {} \/ c.qual_name \in valid_reflexsive_classes}

----------------------------------------------------------------------------
(* Alias validator: helpers.py, get_validation_warnings (lines 590-687).   *)

INFO == 1

WARNING == 2

ERROR == 3

WarningLevel == {INFO, WARNING, ERROR}

\* the objects a Warning keeps in info_objs
ClassRef(c) == [kind |-> "class", qual_name |-> c.qual_name, row |-> c.row, alias_name |-> None]

FuncRef(f) == [kind |-> "function", qual_name |-> f.qual_name, row |-> f.row, alias_name |-> None]

AliasRef(a) == [kind |-> "alias", qual_name |-> a.qual_name, row |-> a.row, alias_name |-> a.alias_name]

\* Info.name
InfoName(o) == split_qual_name(o.qual_name)[2]

\* f'{cls.colored_name}.{func.colored_name}'
FuncLabel(c, f) == <<InfoName(c), InfoName(f)>>

\* a Warning before add_warning has filtered it: rule is the number the
\* specification gives the message template, detail the values the f-string
\* has already interpolated
Finding(objs, level, exec_typ, rule, detail) ==
    [info_objs |-> objs, level |-> level, exec_typ |-> exec_typ, rule |-> rule, detail |-> detail]

ReservedNames == {"args", "kwargs", "self", "cls"}

\* variant: add_warning without the threshold test
AddWarningUnfiltered(ws, f) ==
    LET level == IF strict /\ f.level # INFO THEN ERROR ELSE f.level
    IN [warnings |-> Append(ws, [f EXCEPT !.level = level]),
        stop     |-> level = ERROR /\ exit]

\* add_warning, lines 610-629: the list after the call and what it returns
add_warning(ws, f) ==
    IF f.level < minimum_warning_level THEN [warnings |-> ws, stop |-> FALSE]
    ELSE LET level == IF strict /\ f.level # INFO THEN ERROR ELSE f.level
         IN [warnings |-> Append(ws, [f EXCEPT !.level = level]),
             stop     |-> level = ERROR /\ exit]

\* the findings are raised one after the other; the first add_warning that
\* returns True ends the run
RECURSIVE AddAll(_, _, _)
AddAll(ws, findings, i) ==
    IF i > Len(findings) THEN [warnings |-> ws, stop |-> FALSE]
    ELSE LET r == add_warning(ws, findings[i])
         IN IF r.stop THEN r ELSE AddAll(r.warnings, findings, i + 1)

\* rule 1, lines 634-637
ClassFindings(c) ==
    IF c.functions = {}
    THEN <<Finding(<<ClassRef(c)>>, INFO, "None", 1, {})>>
    ELSE <<>>

\* variant: the body of the remapping loop without rule 6
ItemFindingsNoReserved(c, f, a, item) ==
    IF ~IsStr(item.remapping)
    THEN <<Finding(<<AliasRef(a)>>, ERROR, "TypeError", 5, {<<item.remapping.t>>})>>
    ELSE IF item.param \notin f.parameters
         THEN <<Finding(<<ClassRef(c), FuncRef(f)>>, ERROR, "ReflexsiveArgumentError", 7,
                        {<<item.param>>})>>
         ELSE <<>>

\* rules 5, 6 and 7 for one entry of the remapping, lines 657-670
ItemFindings(c, f, a, item) ==
    IF ~IsStr(item.remapping)
    THEN <<Finding(<<AliasRef(a)>>, ERROR, "TypeError", 5, {<<item.remapping.t>>})>>
    ELSE (IF item.remapping.v \in ReservedNames
          THEN <<Finding(<<AliasRef(a)>>, ERROR, "ReflexsiveArgumentError", 6,
                         {<<item.remapping.v>>})>>
          ELSE <<>>)
         \o (IF item.param \notin f.parameters
             THEN <<Finding(<<ClassRef(c), FuncRef(f)>>, ERROR, "ReflexsiveArgumentError", 7,
                            {<<item.param>>})>>
             ELSE <<>>)

RECURSIVE MappingFindings(_, _, _, _)
MappingFindings(c, f, a, i) ==
    IF i > Len(a.arg_mapping.items) THEN <<>>
    ELSE ItemFindings(c, f, a, a.arg_mapping.items[i]) \o MappingFindings(c, f, a, i + 1)

\* rule 3, lines 647-649
NameFindings(c, f, a) ==
    IF ~IsStr(a.alias_name)
    THEN <<Finding(<<ClassRef(c), FuncRef(f), AliasRef(a)>>, ERROR,
                   "ReflexsiveNameConflictError", 3, {<<a.alias_name.t>>})>>
    ELSE <<>>

\* rule 4, lines 651-653
DuplicateFindings(c, f, a, seen_alias_names) ==
    IF a.alias_name \in seen_alias_names
    THEN <<Finding(<<ClassRef(c), FuncRef(f)>>, ERROR, "ReflexsiveNameConflictError", 4,
                   {<<a.alias_name.v>>})>>
    ELSE <<>>

\* rule 2, lines 643-645
CallFindings(c, f, a) ==
    IF ~a.has_paren
    THEN <<Finding(<<ClassRef(c), FuncRef(f)>>, ERROR, "ReflexsiveNameConflictError", 2, {})>>
    ELSE <<>>

\* everything one pass of the alias loop may raise, lines 641-670
AliasFindings(c, f, a, seen_alias_names) ==
    CallFindings(c, f, a)
    \o NameFindings(c, f, a)
    \o DuplicateFindings(c, f, a, seen_alias_names)
    \o (IF ~a.arg_mapping.isNone /\ a.arg_mapping.items # <<>>
        THEN MappingFindings(c, f, a, 1) ELSE <<>>)

\* the equality alias_map uses for its keys: AliasInfo.__eq__ / __hash__
AliasKeyEq(a, b) == AliasEq(a, b)

\* alias_map.setdefault(alias, []).append(label)
AliasMapAdd(amap, a, label) ==
    IF \E i \in DOMAIN amap : AliasKeyEq(amap[i].alias, a)
    THEN LET i == CHOOSE j \in DOMAIN amap : AliasKeyEq(amap[j].alias, a)
         IN [amap EXCEPT ![i].funcs = Append(@, label)]
    ELSE Append(amap, [alias |-> a, funcs |-> <<label>>])

\* the alias loop of one function, lines 640-674: what it raises and the
\* alias_map it leaves
RECURSIVE AliasLoop(_, _, _, _, _, _)
AliasLoop(c, f, i, seen_alias_names, amap, acc) ==
    IF i > Len(f.aliases) THEN [findings |-> acc, alias_map |-> amap]
    ELSE LET a     == f.aliases[i]
             found == AliasFindings(c, f, a, seen_alias_names)
         IN IF Truthy(a.alias_name)
            THEN AliasLoop(c, f, i + 1, seen_alias_names \cup {a.alias_name},
                           AliasMapAdd(amap, a, FuncLabel(c, f)), acc \o found)
            ELSE AliasLoop(c, f, i + 1, seen_alias_names, amap, acc \o found)

\* variant: an alias_map that is not reset between classes
KeepAliasMap(old) == old

\* alias_map: Dict[AliasInfo, List[str]] = {} at the top of the class loop
NewAliasMap(old) == <<>>

\* rule 8, lines 677-685
RECURSIVE ConflictFindings(_, _, _)
ConflictFindings(c, amap, i) ==
    IF i > Len(amap) THEN <<>>
    ELSE LET funcs == Range(amap[i].funcs)
         IN (IF Cardinality(funcs) > 1
             THEN <<Finding(<<ClassRef(c), AliasRef(amap[i].alias)>>, ERROR,
                            "ReflexsiveNameConflictError", 8, funcs)>>
             ELSE <<>>) \o ConflictFindings(c, amap, i + 1)

\* variant: the list is left in the order of accumulation
LeftUnsorted(ws) == ws

\* sorted(warnings, key=level, reverse=True): stable
SortByLevel(ws) ==
    SelectSeq(ws, LAMBDA w : w.level = ERROR)
    \o SelectSeq(ws, LAMBDA w : w.level = WARNING)
    \o SelectSeq(ws, LAMBDA w : w.level = INFO)

\* the order of str: the names the model uses, in ASCII order
NameOrder == <<"A", "B", "C", "D", "m", "n", "pkg">>

StrRank(s) == CHOOSE i \in DOMAIN NameOrder : NameOrder[i] = s

RECURSIVE NameLess(_, _)
NameLess(a, b) ==
    IF a = <<>> THEN b # <<>>
    ELSE IF b = <<>> THEN FALSE
    ELSE IF a[1] = b[1] THEN NameLess(Tail(a), Tail(b))
    ELSE StrRank(a[1]) < StrRank(b[1])

\* key=lambda cls: (cls.path, cls.qual_name)
ClassKeyLess(c, d) ==
    LET p == get_module_name(c.path)
        q == get_module_name(d.path)
    IN NameLess(p, q) \/ (p = q /\ NameLess(c.qual_name, d.qual_name))

\* the lists sorted() may return for a set: records with equal keys stay in
\* the order the set yields them, which is not fixed
RECURSIVE Orderings(_)
Orderings(S) ==
    IF S = {} THEN {<<>>}
    ELSE UNION {{<<x>> \o rest : rest \in Orderings(S \ {x})} :
                   x \in {y \in S : \A z \in S : ~ClassKeyLess(z, y)}}

----------------------------------------------------------------------------
(* get_validation_warnings as one function of its arguments and of the     *)
(* order in which the sets are iterated.  o = [exit, strict,               *)
(* minimum_warning_level]; a schedule lists the classes in the order of    *)
(* line 631, each with its functions in the order the set yields them.     *)

\* variant: strict mode escalates every finding, INFO included
AddWarningWithStrictEscalatesAll(ws, f, o) ==
    IF f.level < o.minimum_warning_level THEN [warnings |-> ws, stop |-> FALSE]
    ELSE LET level == IF o.strict THEN ERROR ELSE f.level
         IN [warnings |-> Append(ws, [f EXCEPT !.level = level]),
             stop     |-> level = ERROR /\ o.exit]

\* variant: an ERROR never ends the run
AddWarningWithNeverStops(ws, f, o) ==
    IF f.level < o.minimum_warning_level THEN [warnings |-> ws, stop |-> FALSE]
    ELSE LET level == IF o.strict /\ f.level # INFO THEN ERROR ELSE f.level
         IN [warnings |-> Append(ws, [f EXCEPT !.level = level]),
             stop     |-> FALSE]

\* add_warning, lines 610-629, under the arguments o
AddWarningWith(ws, f, o) ==
    IF f.level < o.minimum_warning_level THEN [warnings |-> ws, stop |-> FALSE]
    ELSE LET level == IF o.strict /\ f.level # INFO THEN ERROR ELSE f.level
         IN [warnings |-> Append(ws, [f EXCEPT !.level = level]),
             stop     |-> level = ERROR /\ o.exit]

RECURSIVE AddAllWith(_, _, _, _)
AddAllWith(ws, findings, i, o) ==
    IF i > Len(findings) THEN [warnings |-> ws, stop |-> FALSE]
    ELSE LET r == AddWarningWith(ws, findings[i], o)
         IN IF r.stop THEN r ELSE AddAllWith(r.warnings, findings, i + 1, o)

\* lines 639-685 for one class: the functions fs[k..], then the alias_map
RECURSIVE RunFunctions(_, _, _, _, _, _)
RunFunctions(c, fs, k, amap, ws, o) ==
    IF k > Len(fs) THEN AddAllWith(ws, ConflictFindings(c, amap, 1), 1, o)
    ELSE LET loop == AliasLoop(c, fs[k], 1, {}, amap, <<>>)
             r    == AddAllWith(ws, loop.findings, 1, o)
         IN IF r.stop THEN r
            ELSE RunFunctions(c, fs, k + 1, loop.alias_map, r.warnings, o)

\* the loops of lines 631-685 over the classes sched[i..]: the list they
\* accumulate and whether an add_warning ended the run
RECURSIVE RunLoops(_, _, _, _, _)
RunLoops(sched, i, amap, ws, o) ==
    IF i > Len(sched) THEN [warnings |-> ws, stop |-> FALSE]
    ELSE LET c  == sched[i].cls
             r0 == AddAllWith(ws, ClassFindings(c), 1, o)
             r  == RunFunctions(c, sched[i].funcs, 1, NewAliasMap(amap), r0.warnings, o)
         IN IF r.stop THEN r
            ELSE RunLoops(sched, i + 1, amap, r.warnings, o)

\* variant: the list is returned as it was accumulated

\* lines 631-687: an early return hands back the list as it is, the end of
\* the loops sorts it
RunClasses(sched, i, amap, ws, o) ==
    LET r == RunLoops(sched, i, amap, ws, o)
    IN IF r.stop THEN r.warnings ELSE SortByLevel(r.warnings)

\* the orders in which a set may be iterated
RECURSIVE IterationOrders(_)
IterationOrders(S) ==
    IF S = {} THEN {<<>>}
    ELSE UNION {{<<x>> \o rest : rest \in IterationOrders(S \ {x})} : x \in S}

\* the orders of evaluation lines 631 and 639 allow for the class set cs
RECURSIVE FunctionOrders(_)
FunctionOrders(order) ==
    IF order = <<>> THEN {<<>>}
    ELSE {<<[cls |-> Head(order), funcs |-> fs]>> \o rest :
             fs \in IterationOrders(Head(order).functions),
             rest \in FunctionOrders(Tail(order))}

Schedules(cs) == UNION {FunctionOrders(order) : order \in Orderings(cs)}

Options(ex, st, min) == [exit |-> ex, strict |-> st, minimum_warning_level |-> min]

\* what get_validation_warnings returns for the pruned class set under
\* the schedule sched
Validate(sched, o) == RunClasses(sched, 1, <<>>, <<>>, o)

----------------------------------------------------------------------------
(* The source trees the model scans.  Syntax is written with the helpers   *)
(* below; the trees follow the shape of tests/test_project.                *)

Name(id) == [root |-> "name", parts |-> <<id>>]

Attribute(parts) == [root |-> "name", parts |-> parts]

Constant(c) == [const |-> TRUE, value |-> c]

NonConstant == [const |-> FALSE, value |-> None]

Keyword(k, v) == [named |-> TRUE, arg |-> k, value |-> v]

BareDeco(expr) == [expr |-> expr, call |-> FALSE, args |-> <<>>, keywords |-> <<>>, row |-> 0]

CallDeco(expr, args, kws) == [expr |-> expr, call |-> TRUE, args |-> args, keywords |-> kws, row |-> 0]

ImportFrom(module, level, name, asname) ==
    [from |-> TRUE, module |-> module, level |-> level, name |-> <<name>>,
     asname |-> IF asname = "" THEN <<>> ELSE <<asname>>]

Import(name) == [from |-> FALSE, module |-> <<>>, level |-> 0, name |-> name, asname |-> <<>>]

\* def f(self, path)
PlainArgs == [args |-> <<"self", "path">>, posonlyargs |-> <<>>, vararg |-> <<>>,
              kwonlyargs |-> <<>>, kwarg |-> <<>>]

\* def f(self, /, *rest, path, **extra)
StarArgs == [args |-> <<>>, posonlyargs |-> <<"self">>, vararg |-> <<"rest">>,
             kwonlyargs |-> <<"path">>, kwarg |-> <<"extra">>]

\* a function definition at row r: its n decorators sit on the n rows above
FunctionDef(name, r, args, decos) ==
    [name |-> name, row |-> r, args |-> args,
     decorator_list |-> [i \in DOMAIN decos |->
                            [decos[i] EXCEPT !.row = r - Len(decos) + i - 1]]]

ClassDef(name, r, bases, metaclass, body) ==
    [name |-> name, row |-> r, depth |-> 0, bases |-> bases, metaclass |-> metaclass,
     body |-> body]

\* m.py, as tests/test_project/c.py and b.py import their names
FileM(class_defs) ==
    [path    |-> [dir |-> <<>>, stem |-> "m"],
     ok      |-> TRUE,
     error   |-> "",
     imports |-> <<ImportFrom(<<"reflexsive">>, 0, "Reflexsive", "Base"),
                   ImportFrom(<<"reflexsive", "core">>, 0, "ReflexsiveMeta", ""),
                   Import(<<"other">>)>>,
     classes |-> class_defs]

ClassNames == <<"A", "B", "C", "D">>

FuncNames == <<"read", "write">>

\* the decorators of the trees that exercise the name rules
NameDecos ==
    {BareDeco(Attribute(<<"Base", "alias">>)),
     CallDeco(Attribute(<<"Base", "alias">>), <<>>, <<>>),
     CallDeco(Attribute(<<"Base", "alias">>), <<Constant(Str("open"))>>, <<>>),
     CallDeco(Attribute(<<"Base", "alias">>), <<Constant(Str("x"))>>, <<>>),
     CallDeco(Attribute(<<"Base", "alias">>), <<Constant(Str(""))>>, <<>>),
     CallDeco(Attribute(<<"Base", "alias">>), <<Constant(IntFive)>>, <<>>),
     CallDeco(Attribute(<<"A", "alias">>), <<Constant(Str("open"))>>, <<>>),
     CallDeco(Name("alias"), <<Constant(Str("open"))>>, <<>>)}

\* where the trees of the name rules put decorators: <<class, function>>
FuncSlots == {<<1, 1>>, <<1, 2>>, <<2, 1>>}

\* decorators are placed one after the other on the functions of the tree
Placements == SeqsUpTo([slot : FuncSlots, deco : NameDecos], MaxAliases)

DecosAt(p, slot) ==
    LET here == SelectSeq(p, LAMBDA x : x.slot = slot)
    IN [i \in DOMAIN here |-> here[i].deco]

\* a later function exists only after the earlier ones of its class
WellPlaced(p) ==
    \A i \in DOMAIN p :
        \A f \in 1..(p[i].slot[2] - 1) : DecosAt(p, <<p[i].slot[1], f>>) # <<>>

\* class A(Base), and class B (no base) when it has a decorated function;
\* redefined: the second function of A has the name of the first
NameTree(redefined, p) ==
    LET n == IF DecosAt(p, <<2, 1>>) # <<>> THEN 2 ELSE 1
    IN <<FileM([c \in 1..n |->
           ClassDef(ClassNames[c], 100 * c,
                    IF c = 1 THEN <<Name("Base")>> ELSE <<>>,
                    <<>>,
                    LET used == {f \in DOMAIN FuncNames : DecosAt(p, <<c, f>>) # <<>>}
                    IN [f \in 1..Cardinality(used) |->
                           FunctionDef(IF redefined THEN FuncNames[1] ELSE FuncNames[f],
                                       100 * c + 10 * f, PlainArgs, DecosAt(p, <<c, f>>))])])>>

NameTrees ==
    {NameTree(redefined, p) :
        redefined \in BOOLEAN, p \in {q \in Placements : WellPlaced(q)}}

RemapKeys == {"path", "z", "y"}

RemapValues ==
    {Constant(Str("p")), Constant(Str("self")), Constant(Str("cls")), Constant(Str("args")),
     Constant(Str("kwargs")), Constant(IntFive), NonConstant}

\* keyword lists without a repeated keyword (a repeated one does not parse)
KeywordLists ==
    {k \in SeqsUpTo({Keyword(key, v) : key \in RemapKeys, v \in RemapValues}, MaxKw) :
        \A i, j \in DOMAIN k : i # j => k[i].arg # k[j].arg}

\* class A(Base) with one function whose alias remaps parameters
RemapTree(args, kws) ==
    <<FileM(<<ClassDef("A", 100, <<Name("Base")>>, <<>>,
                <<FunctionDef("read", 110, args,
                    <<CallDeco(Attribute(<<"Base", "alias">>),
                               <<Constant(Str("open"))>>, kws)>>)>>)>>)>>

RemapTrees ==
    {RemapTree(PlainArgs, kws) : kws \in KeywordLists}
      \cup {RemapTree(StarArgs, kws) : kws \in {k \in KeywordLists : Len(k) <= 1}}

\* class A(Base) with the alias 'open' declared on two functions, once
\* with a remapping and once without
RemapTwiceTrees ==
    {<<FileM(<<ClassDef("A", 100, <<Name("Base")>>, <<>>,
                 <<FunctionDef("read", 110, PlainArgs,
                     <<CallDeco(Attribute(<<"Base", "alias">>),
                                <<Constant(Str("open"))>>, kws)>>),
                   FunctionDef("write", 120, PlainArgs,
                     <<CallDeco(Attribute(<<"Base", "alias">>),
                                <<Constant(Str("open"))>>, <<>>)>>)>>)>>)>> :
        kws \in {k \in KeywordLists : Len(k) = 1 /\ k[1].arg = "path"}}

\* class A(Base) whose function read declares the alias '$(4::name)' twice
EmbeddedTrees ==
    {<<FileM(<<ClassDef("A", 100, <<Name("Base")>>, <<>>,
                 <<FunctionDef("read", 110, PlainArgs,
                     <<CallDeco(Attribute(<<"Base", "alias">>),
                                <<Constant(Str("$(4::name)"))>>, <<>>),
                       CallDeco(Attribute(<<"Base", "alias">>),
                                <<Constant(Str("$(4::name)"))>>, <<>>)>>)>>)>>)>>}

\* the decorators of the trees that exercise the hierarchy
ViewDecos ==
    {CallDeco(Attribute(<<"Base", "alias">>), <<Constant(Str("open"))>>, <<>>),
     CallDeco(Attribute(<<"A", "alias">>), <<Constant(Str("open"))>>, <<>>),
     CallDeco(Attribute(<<"other", "A", "alias">>), <<Constant(Str("open"))>>, <<>>),
     CallDeco(Name("alias"), <<Constant(Str("open"))>>, <<>>),
     BareDeco(Name("lru_cache"))}

\* what class c may derive from: nothing, the root, its neighbour in the
\* file (the class before it, or for the first class the one after it),
\* a class of an unrelated module
ViewBases(c) ==
    {<<>>, <<Name("Base")>>, <<Name(ClassNames[IF c = 1 THEN 2 ELSE c - 1])>>,
     <<Attribute(<<"other", "X">>)>>}

ViewMetaclasses == {<<>>, <<Name("ReflexsiveMeta")>>}

\* pkg/n.py: from ..m import A, and class D(A) with an alias written
\* through the imported class
FileN(parses) ==
    [path    |-> [dir |-> <<"pkg">>, stem |-> "n"],
     ok      |-> parses,
     error   |-> IF parses THEN "" ELSE "SyntaxError",
     imports |-> <<ImportFrom(<<"m">>, 2, "A", "")>>,
     classes |-> <<ClassDef("D", 100, <<Name("A")>>, <<>>,
                     <<FunctionDef("write", 110, PlainArgs,
                         <<CallDeco(Attribute(<<"A", "alias">>),
                                    <<Constant(Str("open"))>>, <<>>)>>)>>)>>]

\* pkg/n.py holding a byte that is not UTF-8: f.read() raises
FileUndecodable == [FileN(FALSE) EXCEPT !.error = "UnicodeDecodeError"]

\* pkg/n.py holding an expression nested too deeply: ast.parse raises
FileTooDeep == [FileN(FALSE) EXCEPT !.error = "MemoryError"]

OtherFiles ==
    {<<>>, <<FileN(TRUE)>>, <<FileN(FALSE)>>, <<FileUndecodable>>, <<FileTooDeep>>}

\* n classes in m.py; headers[c] = <<bases, metaclass>>; at most one
\* function, in class at, decorated with deco (at = 0: no function)
ViewTree(headers, at, deco, others) ==
    <<FileM([c \in DOMAIN headers |->
        ClassDef(ClassNames[c], 100 * c, headers[c][1], headers[c][2],
                 IF c = at THEN <<FunctionDef("read", 100 * c + 10, PlainArgs, <<deco>>)>>
                 ELSE <<>>)])>> \o others

ViewHeaders ==
    UNION {{h \in [1..n -> (UNION {ViewBases(c) : c \in 1..n}) \X ViewMetaclasses] :
               \A c \in 1..n : h[c][1] \in ViewBases(c)} : n \in 1..MaxClasses}

ViewTrees ==
    {ViewTree(h, at, deco, others) :
        h \in ViewHeaders, at \in 0..MaxClasses, deco \in ViewDecos, others \in OtherFiles}

\* m.py with a nested class: class Outer(Base) holding class Inner, then
\* class Later deriving from Inner or Outer by its simple name, written
\* inside Outer (depth 1) or after it in the module body (depth 0), with
\* or without a metaclass
NestedTrees ==
    {<<FileM(<<ClassDef("Outer", 100, <<Name("Base")>>, <<>>, <<>>),
               [ClassDef("Inner", 110, <<>>, <<>>, <<>>) EXCEPT !.depth = 1],
               [ClassDef("Later", 120, <<Name(base)>>, meta,
                    <<FunctionDef("read", 130, PlainArgs,
                        <<CallDeco(Attribute(<<"Outer", "alias">>),
                                   <<Constant(Str("open"))>>, <<>>)>>)>>)
                  EXCEPT !.depth = d]>>)>> :
        base \in {"Inner", "Outer"}, d \in {0, 1},
        meta \in {<<>>, <<Name("Inner")>>, <<Name("ReflexsiveMeta")>>}}

----------------------------------------------------------------------------
(* Warning.message (lines 69-96).  A template is the sequence of its       *)
(* back-references $(...), each the list of its parts between "::"; the    *)
(* text between them is copied unchanged and is left out.                  *)

Raised(exc) == [raised |-> TRUE, exc |-> exc, value |-> <<>>]
Returned(v) == [raised |-> FALSE, exc |-> "", value |-> v]

\* int(): the numerals the templates below use; anything else is not a number
PyInt(s) ==
    CASE s = "-1" -> Returned(-1)
      [] s = "0"  -> Returned(0)
      [] s = "1"  -> Returned(1)
      [] s = "2"  -> Returned(2)
      [] s = "3"  -> Returned(3)
      [] s = "4"  -> Returned(4)
      [] s = "5"  -> Returned(5)
      [] OTHER    -> Raised("ValueError")

\* seq[index] of a Python tuple: zero-based, negative indices count from the end
PyItem(seq, index) ==
    IF index >= 0
    THEN IF index < Len(seq) THEN Returned(seq[index + 1]) ELSE Raised("IndexError")
    ELSE IF Len(seq) + index >= 0 THEN Returned(seq[Len(seq) + index + 1])
         ELSE Raised("IndexError")

\* the attributes of the Info records (info.py, lines 20-42, 45-53, 90-98, 140-163)
InfoAttributes ==
    {"qual_name", "path", "row", "column", "name", "colored_name", "location",
     "colored_location"}
Attributes(kind) ==
    CASE kind = "class" ->
            InfoAttributes \cup {"metaclass", "bases", "functions", "decl_line", "full_impl",
                                 "is_valid_reflexsive"}
      [] kind = "function" ->
            InfoAttributes \cup {"parameters", "aliases", "decl_line", "full_impl"}
      [] kind = "alias" ->
            InfoAttributes \cup {"alias_name", "arg_mapping", "has_paren", "decl_line"}

\* lines 71-90
replacer(info_objs, split) ==
    IF Len(split) > 2 THEN Raised("ValueError")
    ELSE LET parsed == IF Len(split) = 2 THEN PyInt(split[1]) ELSE Returned(1)
         IN IF parsed.raised THEN parsed
            ELSE LET index == parsed.value - 1
                     field == Last(split)
                 IN IF index >= Len(info_objs) THEN Raised("ValueError")
                    ELSE LET obj == PyItem(info_objs, index)
                         IN IF obj.raised THEN obj
                            ELSE IF field \notin Attributes(obj.value.kind)
                                 THEN Raised("ValueError")
                                 ELSE Returned([of |-> obj.value, field |-> field])

\* re.sub, line 94: the matches left to right, the first error ends it
RECURSIVE Substitute(_, _, _, _)
Substitute(info_objs, refs, i, out) ==
    IF i > Len(refs) THEN Returned(out)
    ELSE LET r == replacer(info_objs, refs[i])
         IN IF r.raised THEN r
            ELSE Substitute(info_objs, refs, i + 1, Append(out, r.value))

\* lines 92-96
message(w) ==
    LET message_str == Substitute(w.info_objs, w._message, 1, <<>>)
    IN IF message_str.raised THEN message_str
       ELSE Returned([level_str |-> w.level, raises_str |-> w.exec_typ,
                      message_str |-> message_str.value])

\* the back-references re.sub finds in a string the f-string of a rule has
\* interpolated: the alias name "$(4::name)" holds one, the other names of
\* the model hold none
RefsIn(text) == IF text = "$(4::name)" THEN <<<<"4", "name">>>> ELSE <<>>

\* the back-references of the template of each rule, in the order of the
\* text, lines 636-684; rule 4 interpolates alias.colored_name, the other
\* rules interpolate type names, identifiers and reserved names
TemplateOf(f) ==
    LET cl == "colored_location"
        cn == "colored_name"
    IN CASE f.rule = 1 -> <<<<cl>>, <<cn>>>>
         [] f.rule = 2 -> <<<<"2", cl>>, <<"1", cn>>, <<"2", cn>>>>
         [] f.rule = 3 -> <<<<"3", cl>>, <<"3", cn>>, <<"1", cn>>, <<"2", cn>>>>
         [] f.rule = 4 -> <<<<"2", cl>>, <<"1", cn>>, <<"2", cn>>>>
                            \o RefsIn((CHOOSE d \in f.detail : TRUE)[1])
         [] f.rule = 5 -> <<<<cl>>, <<cn>>>>
         [] f.rule = 6 -> <<<<cl>>, <<cn>>>>
         [] f.rule = 7 -> <<<<"2", cl>>, <<"2", cn>>, <<"1", cn>>>>
         [] f.rule = 8 -> <<<<"1", cl>>, <<"2", cn>>, <<"1", cn>>>>

\* the Warning add_warning stored for the finding f, line 628
WarningOf(f) ==
    [info_objs |-> f.info_objs, level |-> f.level, exec_typ |-> f.exec_typ,
     _message |-> TemplateOf(f)]

----------------------------------------------------------------------------
(* The commands.  Both run get_class_set_in_path (lines 489-504); scan     *)
(* validate goes on with the validator.  An argument is chosen where the   *)
(* code first reads it.                                                    *)

Start(trees) ==
    /\ tree \in trees
    /\ pc = "scan"
    /\ classes = {}
    /\ exclude_inherited = FALSE
    /\ exclude_metaclass = FALSE
    /\ exit = FALSE
    /\ strict = FALSE
    /\ minimum_warning_level = WARNING
    /\ todo = <<>>
    /\ cur = <<>>
    /\ funcs_left = {}
    /\ alias_map = <<>>
    /\ warnings = <<>>
    /\ result = <<>>
    /\ shown = <<>>
    /\ message_out = <<>>
    /\ full_stub_text = <<>>
    /\ class_name = ""
    /\ method_stubs = <<>>
    /\ previous_texts = <<>>
    /\ target_set = {}
    /\ bfs_queue = <<>>
    /\ found_names = {}
    /\ enqueued = <<>>

Init == Start(NameTrees \cup RemapTrees \cup RemapTwiceTrees \cup EmbeddedTrees)

InitView == Start(ViewTrees \cup NestedTrees)

CollectClasses ==
    /\ pc = "scan"
    /\ IF Uncaught(tree) = {}
       THEN classes' = collect_classes(tree) /\ pc' = "prune_aliases"
       ELSE pc' = "raised" /\ UNCHANGED classes
    /\ UNCHANGED <<bfs_vars, stub_vars, shown, message_out, tree, exclude_inherited, exclude_metaclass, exit, strict,
                   minimum_warning_level, todo, cur, funcs_left, alias_map, warnings, result>>

PruneInvalidAliases ==
    /\ pc = "prune_aliases"
    /\ classes' = prune_invalid_aliases(classes)
    /\ pc' = "prune_functions"
    /\ UNCHANGED <<bfs_vars, stub_vars, shown, message_out, tree, exclude_inherited, exclude_metaclass, exit, strict,
                   minimum_warning_level, todo, cur, funcs_left, alias_map, warnings, result>>

PruneAliaslessFunctions ==
    /\ pc = "prune_functions"
    /\ classes' = prune_aliasless_functions(classes)
    /\ pc' = "prune_classes"
    /\ UNCHANGED <<bfs_vars, stub_vars, shown, message_out, tree, exclude_inherited, exclude_metaclass, exit, strict,
                   minimum_warning_level, todo, cur, funcs_left, alias_map, warnings, result>>

\* scan view: the toggles are the command's options, and the class set is
\* what the command renders
PruneAliaslessClassesView ==
    /\ pc = "prune_classes"
    /\ \E ei \in BOOLEAN, em \in BOOLEAN :
          /\ exclude_inherited' = ei
          /\ exclude_metaclass' = em
          /\ classes' = prune_aliasless_classes(classes, ei, em)
    /\ pc' = "done"
    /\ UNCHANGED <<bfs_vars, stub_vars, shown, message_out, tree, exit, strict, minimum_warning_level, todo, cur, funcs_left,
                   alias_map, warnings, result>>

\* scan validate: lines 603-608 pass both toggles as False
PruneAliaslessClassesValidate ==
    /\ pc = "prune_classes"
    /\ classes' = prune_aliasless_classes(classes, FALSE, FALSE)
    /\ pc' = "validate"
    /\ UNCHANGED <<bfs_vars, stub_vars, shown, message_out, tree, exclude_inherited, exclude_metaclass, exit, strict,
                   minimum_warning_level, todo, cur, funcs_left, alias_map, warnings, result>>

\* the options of scan validate (commands.py, lines 139-146) and the sort
\* of line 631
StartValidation ==
    /\ pc = "validate"
    /\ exit' \in BOOLEAN
    /\ strict' \in BOOLEAN
    /\ minimum_warning_level' \in WarningLevel
    /\ todo' \in Orderings(classes)
    /\ pc' = "class"
    /\ UNCHANGED <<bfs_vars, stub_vars, shown, message_out, tree, classes, exclude_inherited, exclude_metaclass, cur, funcs_left,
                   alias_map, warnings, result>>

\* the top of the class loop, lines 631-637 (an INFO never ends the run)
ValidateClass ==
    /\ pc = "class"
    /\ todo # <<>>
    /\ cur' = <<Head(todo)>>
    /\ todo' = Tail(todo)
    /\ alias_map' = NewAliasMap(alias_map)
    /\ warnings' = AddAll(warnings, ClassFindings(Head(todo)), 1).warnings
    /\ funcs_left' = Head(todo).functions
    /\ pc' = "functions"
    /\ UNCHANGED <<bfs_vars, stub_vars, shown, message_out, tree, classes, exclude_inherited, exclude_metaclass, exit, strict,
                   minimum_warning_level, result>>

\* one pass of "for func in cls.functions" (a set: any order), lines 639-674
ValidateFunction ==
    /\ pc = "functions"
    /\ \E f \in funcs_left :
          LET loop == AliasLoop(cur[1], f, 1, {}, alias_map, <<>>)
              r    == AddAll(warnings, loop.findings, 1)
          IN /\ warnings' = r.warnings
             /\ IF r.stop
                THEN /\ pc' = "done"
                     /\ result' = r.warnings
                     /\ UNCHANGED <<funcs_left, alias_map>>
                ELSE /\ pc' = "functions"
                     /\ funcs_left' = funcs_left \ {f}
                     /\ alias_map' = loop.alias_map
                     /\ UNCHANGED result
    /\ UNCHANGED <<bfs_vars, stub_vars, shown, message_out, tree, classes, exclude_inherited, exclude_metaclass, exit, strict,
                   minimum_warning_level, todo, cur>>

\* the alias_map loop that ends a class, lines 677-685
ValidateConflicts ==
    /\ pc = "functions"
    /\ funcs_left = {}
    /\ LET r == AddAll(warnings, ConflictFindings(cur[1], alias_map, 1), 1)
       IN /\ warnings' = r.warnings
          /\ IF r.stop
             THEN pc' = "done" /\ result' = r.warnings
             ELSE pc' = "class" /\ UNCHANGED result
    /\ UNCHANGED <<bfs_vars, stub_vars, shown, message_out, tree, classes, exclude_inherited, exclude_metaclass, exit, strict,
                   minimum_warning_level, todo, cur, funcs_left, alias_map>>

\* line 687
ReturnSorted ==
    /\ pc = "class"
    /\ todo = <<>>
    /\ result' = SortByLevel(warnings)
    /\ pc' = "done"
    /\ UNCHANGED <<bfs_vars, stub_vars, shown, message_out, tree, classes, exclude_inherited, exclude_metaclass, exit, strict,
                   minimum_warning_level, todo, cur, funcs_left, alias_map, warnings>>

\* commands.py, line 146: the message of every returned diagnostic is read
EchoMessages ==
    /\ pc = "done"
    /\ message_out' = [i \in DOMAIN result |-> message(WarningOf(result[i]))]
    /\ pc' = "echoed"
    /\ UNCHANGED <<bfs_vars, stub_vars, shown, tree, classes, exclude_inherited,
                   exclude_metaclass, exit, strict, minimum_warning_level, todo, cur,
                   funcs_left, alias_map, warnings, result>>

Next ==
    \/ CollectClasses
    \/ PruneInvalidAliases
    \/ PruneAliaslessFunctions
    \/ PruneAliaslessClassesValidate
    \/ StartValidation
    \/ ValidateClass
    \/ ValidateFunction
    \/ ValidateConflicts
    \/ ReturnSorted
    \/ EchoMessages

NextView ==
    \/ CollectClasses
    \/ PruneInvalidAliases
    \/ PruneAliaslessFunctions
    \/ PruneAliaslessClassesView

\* scan validate
Spec == Init /\ [][Next]_vars

\* scan view
SpecView == InitView /\ [][NextView]_vars

----------------------------------------------------------------------------
(* Reading the message of one Warning, as scan validate does for every     *)
(* element of the returned list (commands.py, line 146).                   *)

\* the tuples of records add_warning is given (lines 635-683)
InfoTuples ==
    LET c == [kind |-> "class", qual_name |-> <<"m", "A">>]
        f == [kind |-> "function", qual_name |-> <<"m", "A", "read">>]
        a == [kind |-> "alias", qual_name |-> <<"reflexsive", "Reflexsive", "alias">>]
    IN {<<c>>, <<a>>, <<c, f>>, <<c, a>>, <<c, f, a>>}

\* back-references: field, index::field, and one with a third part
BackReferences ==
    LET fields == {"colored_name", "alias_name", "nope"}
    IN {<<fl>> : fl \in fields}
         \cup {<<ix, fl>> : ix \in {"-1", "0", "1", "2", "4", "x"}, fl \in fields}
         \cup {<<"1", "colored_name", "upper">>}

Templates == SeqsUpTo(BackReferences, MaxRefs)

StartMessage ==
    /\ tree = <<>>
    /\ pc = "message"
    /\ classes = {}
    /\ exclude_inherited = FALSE
    /\ exclude_metaclass = FALSE
    /\ exit = FALSE
    /\ strict = FALSE
    /\ minimum_warning_level = WARNING
    /\ todo = <<>>
    /\ cur = <<>>
    /\ funcs_left = {}
    /\ alias_map = <<>>
    /\ warnings = <<>>
    /\ result = <<>>
    /\ \E objs \in InfoTuples, level \in WarningLevel, tpl \in Templates :
          shown = <<[info_objs |-> objs, level |-> level, exec_typ |-> "ValueError",
                   _message |-> tpl]>>
    /\ message_out = <<>>
    /\ full_stub_text = <<>>
    /\ class_name = ""
    /\ method_stubs = <<>>
    /\ previous_texts = <<>>
    /\ target_set = {}
    /\ bfs_queue = <<>>
    /\ found_names = {}
    /\ enqueued = <<>>

ReadMessage ==
    /\ pc = "message"
    /\ message_out' = <<message(shown[1])>>
    /\ pc' = "read"
    /\ UNCHANGED <<tree, classes, exclude_inherited, exclude_metaclass, exit, strict,
                   minimum_warning_level, todo, cur, funcs_left, alias_map, warnings,
                   result, shown, stub_vars, bfs_vars>>

NextMessage == ReadMessage

\* the message property
SpecMessage == StartMessage /\ [][NextMessage]_vars

----------------------------------------------------------------------------
(* The stub merger, stub_update_class(full_stub_text, class_name,          *)
(* method_stubs) of reflexsive.stubgen.  A text is the list of its lines;  *)
(* a line is [indent, kind, name, sig]: kind "class" for a class header,   *)
(* "def" for a method line declaring name, "text" for anything else.       *)

ClassLine(name) == [indent |-> 0, kind |-> "class", name |-> name, sig |-> ""]
DefLine(name, sig) == [indent |-> 0, kind |-> "def", name |-> name, sig |-> sig]
TextLine(indent, text) == [indent |-> indent, kind |-> "text", name |-> "", sig |-> text]

\* a method stub placed in a class body: indented one level
Indented(stub) == [stub EXCEPT !.indent = 1]

IsHeader(line, name) == line.indent = 0 /\ line.kind = "class" /\ line.name = name
IsMethod(line) == line.indent = 1 /\ line.kind = "def"

HasBlock(text, name) == \E i \in DOMAIN text : IsHeader(text[i], name)

\* the header of the block of class name
BlockStart(text, name) ==
    CHOOSE i \in DOMAIN text :
        IsHeader(text[i], name) /\ \A j \in 1..(i - 1) : ~IsHeader(text[j], name)

\* variant of BlockEnd: the block runs to the end of the text
TextEnd(text, h) == Len(text)

\* the last line of the block whose header is line h: the indented lines
\* that follow the header
BlockEnd(text, h) ==
    CHOOSE e \in h..Len(text) :
        /\ \A j \in (h + 1)..e : text[j].indent > 0
        /\ e = Len(text) \/ text[e + 1].indent = 0

\* the names the method lines of a body declare
DeclaredNames(body) == {body[i].name : i \in {j \in DOMAIN body : IsMethod(body[j])}}

\* the incoming line that declares name
IncomingLine(stubs, name) == stubs[CHOOSE i \in DOMAIN stubs : stubs[i].name = name]

\* every matching method line replaced in place
ReplaceInPlace(body, stubs) ==
    [i \in DOMAIN body |->
        IF IsMethod(body[i]) /\ \E k \in DOMAIN stubs : stubs[k].name = body[i].name
        THEN Indented(IncomingLine(stubs, body[i].name))
        ELSE body[i]]

\* variant of UnmatchedStubs: every incoming stub is appended
AllStubs(body, stubs) == stubs

\* the incoming stubs with no existing match, in incoming order
UnmatchedStubs(body, stubs) ==
    SelectSeq(stubs, LAMBDA m : m.name \notin DeclaredNames(body))

IndentAll(stubs) == [i \in DOMAIN stubs |-> Indented(stubs[i])]

stub_update_class(text, name, stubs) ==
    IF ~HasBlock(text, name)
    THEN text \o <<ClassLine(name)>> \o IndentAll(stubs)
    ELSE LET h    == BlockStart(text, name)
             e    == BlockEnd(text, h)
             body == SubSeq(text, h + 1, e)
         IN SubSeq(text, 1, h)
              \o ReplaceInPlace(body, stubs)
              \o IndentAll(UnmatchedStubs(body, stubs))
              \o SubSeq(text, e + 1, Len(text))

\* the lines a class body is drawn from
BodyLines ==
    {Indented(DefLine("foo", "old")), Indented(DefLine("bar", "old")),
     TextLine(1, "docstring"), TextLine(1, "# comment")}

\* persisted texts: lines before the block, the block of X or none, lines after
StubTexts ==
    LET other  == <<ClassLine("Y"), Indented(DefLine("foo", "old"))>>
        before == {<<>>, <<TextLine(0, "import")>>, other}
        blocks == {<<>>} \cup {<<ClassLine("X")>> \o b : b \in SeqsUpTo(BodyLines, MaxBody)}
        after  == {<<>>, <<TextLine(0, "x: int")>>, other}
    IN {a \o b \o c : a \in before, b \in blocks, c \in after}

\* incoming method lists, one line for a name
StubLists ==
    {m \in SeqsUpTo({DefLine("foo", "new"), DefLine("foo", "old"), DefLine("bar", "new"),
                     DefLine("baz", "new")}, MaxStubs) :
        \A i, j \in DOMAIN m : i # j => m[i].name # m[j].name}

StartStub ==
    /\ tree = <<>>
    /\ pc = "stub"
    /\ classes = {}
    /\ exclude_inherited = FALSE
    /\ exclude_metaclass = FALSE
    /\ exit = FALSE
    /\ strict = FALSE
    /\ minimum_warning_level = WARNING
    /\ todo = <<>>
    /\ cur = <<>>
    /\ funcs_left = {}
    /\ alias_map = <<>>
    /\ warnings = <<>>
    /\ result = <<>>
    /\ shown = <<>>
    /\ message_out = <<>>
    /\ full_stub_text \in StubTexts
    /\ class_name = "X"
    /\ method_stubs \in StubLists
    /\ previous_texts = <<>>
    /\ target_set = {}
    /\ bfs_queue = <<>>
    /\ found_names = {}
    /\ enqueued = <<>>

\* one merge of method_stubs into the text
StubUpdateClass ==
    /\ pc = "stub"
    /\ Len(previous_texts) < MaxMerges
    /\ full_stub_text' = stub_update_class(full_stub_text, class_name, method_stubs)
    /\ previous_texts' = Append(previous_texts, full_stub_text)
    /\ UNCHANGED <<tree, pc, classes, exclude_inherited, exclude_metaclass, exit, strict,
                   minimum_warning_level, todo, cur, funcs_left, alias_map, warnings,
                   result, shown, message_out, class_name, method_stubs, bfs_vars>>

NextStub == StubUpdateClass

\* the stub merger
SpecStub == StartStub /\ [][NextStub]_vars

----------------------------------------------------------------------------
(* get_subclass_qual_names (lines 375-412) step by step, over class sets   *)
(* that hold cycles and several records with one qualified name.           *)

GraphNames == {<<"m", "A">>, <<"m", "B">>, <<"m", "C">>}

\* class records: a name, at most one base, and a line that tells two
\* records with the same name apart
GraphRecords ==
    [qual_name : GraphNames, bases : {{}} \cup {{b} : b \in GraphNames}, row : {100, 200}]

RECURSIVE SubsetsUpTo(_, _)
SubsetsUpTo(S, n) ==
    IF n = 0 THEN {{}}
    ELSE LET smaller == SubsetsUpTo(S, n - 1)
         IN smaller \cup {T \cup {x} : T \in smaller, x \in S}

StartBfs ==
    /\ tree = <<>>
    /\ pc = "bfs"
    /\ classes \in SubsetsUpTo(GraphRecords, MaxGraph)
    /\ exclude_inherited = FALSE
    /\ exclude_metaclass = FALSE
    /\ exit = FALSE
    /\ strict = FALSE
    /\ minimum_warning_level = WARNING
    /\ todo = <<>>
    /\ cur = <<>>
    /\ funcs_left = {}
    /\ alias_map = <<>>
    /\ warnings = <<>>
    /\ result = <<>>
    /\ shown = <<>>
    /\ message_out = <<>>
    /\ full_stub_text = <<>>
    /\ class_name = ""
    /\ method_stubs = <<>>
    /\ previous_texts = <<>>
    /\ target_set \in (SubsetsUpTo(GraphNames, 2) \ {{}})
    /\ bfs_queue \in IterationOrders(target_set)
    /\ found_names = {}
    /\ enqueued = bfs_queue

\* lines 405-410: popleft, then every subclass not yet in the result is
\* added and appended
BfsStep ==
    /\ pc = "bfs"
    /\ bfs_queue # <<>>
    /\ LET found == NewlyFound(Head(bfs_queue), found_names, classes)
       IN /\ found_names' = found_names \cup found
          /\ \E order \in IterationOrders(found) :
                /\ bfs_queue' = Tail(bfs_queue) \o order
                /\ enqueued' = enqueued \o order
    /\ UNCHANGED <<tree, pc, classes, exclude_inherited, exclude_metaclass, exit, strict,
                   minimum_warning_level, todo, cur, funcs_left, alias_map, warnings,
                   result, shown, message_out, stub_vars, target_set>>

\* line 412
BfsReturn ==
    /\ pc = "bfs"
    /\ bfs_queue = <<>>
    /\ pc' = "bfs_done"
    /\ UNCHANGED <<tree, classes, exclude_inherited, exclude_metaclass, exit, strict,
                   minimum_warning_level, todo, cur, funcs_left, alias_map, warnings,
                   result, shown, message_out, stub_vars, bfs_vars>>

NextBfs ==
    \/ BfsStep
    \/ BfsReturn

\* the search, whose loop is not interrupted
SpecBfs == StartBfs /\ [][NextBfs]_vars /\ WF_vars(NextBfs)

----------------------------------------------------------------------------
(* Properties.                                                             *)

\* what the scanner returns for the tree, before any pruning
Scanned == collect_classes(tree)

Done == pc = "done"

\* the simple names of the qualified names in S, as one-part names
SimpleNames(S) == {<<Last(q)>> : q \in S}

\* the decorator's class part
AliasClassName(a) == split_qual_name(a.qual_name)[1]

\* the positions in the returned list that hold a warning of the rule
RuleAt(rule) == {j \in DOMAIN result : result[j].rule = rule}

\* the tree is one class deriving from the root with one function that
\* has one alias declaration
OneClassOneAlias(c, f) ==
    /\ Scanned = {c}
    /\ c.bases \cap VALID_REFLEXSIVE_MODULE_PATHS # {}
    /\ c.functions = {f}
    /\ Len(f.aliases) = 1

(* C1: a class deriving from the capability root with one method whose only
   alias declaration is not called: validation at the WARNING threshold,
   not strict and without stop-on-first-error, returns exactly one ERROR,
   the rule 2 finding, and nothing else. *)
C1_BareAliasOneError ==
    (/\ Done /\ ~strict /\ ~exit /\ minimum_warning_level = WARNING
     /\ \E c \in Scanned : \E f \in c.functions :
           OneClassOneAlias(c, f) /\ ~f.aliases[1].has_paren)
    => /\ Len(result) = 1
       /\ result[1].level = ERROR
       /\ result[1].rule = 2

\* the scenario of C2: class A(root) with method read and one alias
\* declaration called with 'open' and no remapping
C2_Scenario(c, f) ==
    /\ OneClassOneAlias(c, f)
    /\ InfoName(c) = "A"
    /\ InfoName(f) = "read"
    /\ f.aliases[1].has_paren
    /\ f.aliases[1].alias_name = Str("open")
    /\ f.aliases[1].arg_mapping.items = <<>>

\* what C2 says the pipeline returns
C2_Outcome ==
    /\ \E c \in classes : \E f \in c.functions :
          /\ classes = {c}
          /\ InfoName(c) = "A"
          /\ c.is_valid_reflexsive
          /\ c.functions = {f}
          /\ InfoName(f) = "read"
          /\ Len(f.aliases) = 1
          /\ f.aliases[1].alias_name = Str("open")
    /\ minimum_warning_level = WARNING => result = <<>>

(* C2 as stated: for class A(root) whose method read carries one alias
   declaration called with 'open', however the decorator is written, the
   pipeline returns one ClassRecord A, capable, with one FunctionRecord
   read holding one AliasRecord 'open', and validation at the default
   threshold returns nothing. *)
C2_AnyDecorator ==
    (Done /\ \E c \in Scanned : \E f \in c.functions : C2_Scenario(c, f))
    => C2_Outcome

\* the decorator is written through the capability root or through class
\* A itself (by its qualified or by its bare name)
C2_ThroughCapableClass(c, f) ==
    AliasClassName(f.aliases[1])
        \in VALID_REFLEXSIVE_MODULE_PATHS \cup {c.qual_name, <<InfoName(c)>>}

(* C2, amended: the same, for an alias declaration written through the
   capability root or through A itself. *)
C2_ThroughCapableDecorator ==
    (Done /\ \E c \in Scanned : \E f \in c.functions :
                C2_Scenario(c, f) /\ C2_ThroughCapableClass(c, f))
    => C2_Outcome

C2_Witness ==
    /\ Done
    /\ minimum_warning_level = WARNING
    /\ result = <<>>
    /\ \E c \in Scanned : \E f \in c.functions :
          /\ C2_Scenario(c, f)
          /\ AliasClassName(f.aliases[1]) = <<"A">>

\* the functions of c that declare the target name nm
Owners(c, nm) ==
    {f \in c.functions : \E i \in DOMAIN f.aliases : f.aliases[i].alias_name = nm}

\* the target names declared in c
TargetNames(c) ==
    UNION {{f.aliases[i].alias_name : i \in DOMAIN f.aliases} : f \in c.functions} \ {None}

\* the rule 8 warnings returned for class c and target name nm
ConflictsAt(c, nm) ==
    {j \in RuleAt(8) : /\ result[j].info_objs[1] = ClassRef(c)
                       /\ result[j].info_objs[2].alias_name = nm}

(* C3: in one class, a target name declared on two or more retained
   functions gets exactly one class level ERROR (rule 8) that lists the
   label of every owning function, whichever decorator expression each
   declaration is written through.  Stated here for names that are
   non-empty strings and owners of different labels. *)
C3_OneConflictPerName ==
    (Done /\ ~exit) =>
        \A c \in classes : \A nm \in TargetNames(c) :
            LET labels == {FuncLabel(c, f) : f \in Owners(c, nm)}
            IN (IsStr(nm) /\ Truthy(nm) /\ Cardinality(labels) >= 2)
               => /\ Cardinality(ConflictsAt(c, nm)) = 1
                  /\ \A j \in ConflictsAt(c, nm) :
                        result[j].level = ERROR /\ result[j].detail = labels

\* two different classes each declare nm on exactly one function
SharedAcrossClasses(x, y, nm) ==
    /\ x # y
    /\ Cardinality(Owners(x, nm)) = 1
    /\ Cardinality(Owners(y, nm)) = 1

(* C4: rule 8 is scoped to one class: a target name declared on one
   function of class X and on one function of another class Y (and on no
   other function of either) never gets a rule 8 diagnostic. *)
C4_NoConflictAcrossClasses ==
    \A x \in classes, y \in classes : \A nm \in TargetNames(x) :
        SharedAcrossClasses(x, y, nm)
        => \A j \in DOMAIN warnings :
              warnings[j].rule = 8 => warnings[j].info_objs[2].alias_name # nm

C4_Witness ==
    /\ Done
    /\ ~exit
    /\ \E x \in classes, y \in classes : SharedAcrossClasses(x, y, Str("open"))

(* C5: a function with two alias declarations of the same string target
   name and no other fault: validation without stop-on-first-error returns
   exactly one ERROR, the rule 4 finding, and no rule 8 diagnostic. *)
C5_DuplicateNameOneError ==
    (/\ Done /\ ~exit
     /\ \E c \in Scanned : \E f \in c.functions :
           /\ Scanned = {c}
           /\ c.bases \cap VALID_REFLEXSIVE_MODULE_PATHS # {}
           /\ c.functions = {f}
           /\ Len(f.aliases) = 2
           /\ \A i \in 1..2 :
                 /\ f.aliases[i].has_paren
                 /\ AliasClassName(f.aliases[i]) \in VALID_REFLEXSIVE_MODULE_PATHS
                 /\ f.aliases[i].arg_mapping.items = <<>>
           /\ IsStr(f.aliases[1].alias_name)
           /\ f.aliases[1].alias_name = f.aliases[2].alias_name)
    => /\ Len(result) = 1
       /\ result[1].level = ERROR
       /\ result[1].rule = 4

(* C6: every entry of a retained alias's remapping whose source parameter
   is not a parameter of the function gets the rule 7 ERROR naming that
   parameter (without stop-on-first-error), whatever value the entry
   remaps to. *)
C6_UnknownParameterAnyValue ==
    (Done /\ ~exit) =>
        \A c \in classes : \A f \in c.functions : \A i \in DOMAIN f.aliases :
            \A k \in DOMAIN f.aliases[i].arg_mapping.items :
                f.aliases[i].arg_mapping.items[k].param \notin f.parameters
                => \E j \in RuleAt(7) :
                      /\ result[j].level = ERROR
                      /\ result[j].info_objs = <<ClassRef(c), FuncRef(f)>>
                      /\ result[j].detail = {<<f.aliases[i].arg_mapping.items[k].param>>}

\* the rule 6 warnings returned for alias a that cite the name r
ReservedWarnings(a, r) ==
    {j \in RuleAt(6) : /\ result[j].info_objs = <<AliasRef(a)>>
                       /\ result[j].detail = {<<r>>}
                       /\ result[j].level = ERROR}

\* the entries of a's remapping whose value is the string r
EntriesWithValue(a, r) ==
    {k \in DOMAIN a.arg_mapping.items : a.arg_mapping.items[k].remapping = Str(r)}

(* C7 as stated: for every retained alias, each remapping entry whose
   value is one of 'args', 'kwargs', 'self', 'cls' produces an ERROR citing
   that name. *)
C7_ReservedAlwaysReported ==
    Done =>
        \A c \in classes : \A f \in c.functions : \A i \in DOMAIN f.aliases :
            \A r \in ReservedNames :
                Cardinality(ReservedWarnings(f.aliases[i], r))
                    >= Cardinality(EntriesWithValue(f.aliases[i], r))

(* C7, amended: when validation is not cut short by stop-on-first-error,
   each remapping entry whose value is one of the four reserved names
   produces one ERROR citing that name; and, stop-on-first-error or not, a
   rule 6 diagnostic always cites a reserved name that an entry of the
   alias remaps to, so a string that is none of the four never produces
   it. *)
C7_ReservedReportedUnlessStopped ==
    Done =>
        /\ \A j \in RuleAt(6) :
              \E r \in ReservedNames : result[j].detail = {<<r>>} /\ result[j].level = ERROR
        /\ \A c \in classes : \A f \in c.functions : \A i \in DOMAIN f.aliases :
              \A r \in ReservedNames :
                  /\ Cardinality(ReservedWarnings(f.aliases[i], r))
                        <= Cardinality(EntriesWithValue(f.aliases[i], r))
                  /\ ~exit => Cardinality(ReservedWarnings(f.aliases[i], r))
                                 = Cardinality(EntriesWithValue(f.aliases[i], r))

C7_Witness ==
    /\ Done
    /\ ~exit
    /\ \E c \in classes : \E f \in c.functions :
          /\ EntriesWithValue(f.aliases[1], "self") # {}
          /\ EntriesWithValue(f.aliases[1], "p") # {}
          /\ Cardinality(RuleAt(6)) = 1

\* the classes that derive, directly or through other scanned classes,
\* from a name in seeds: the least set closed under "has a base in it"
RECURSIVE DerivedFrom(_, _, _)
DerivedFrom(seeds, found, cs) ==
    LET more == found \cup {c.qual_name : c \in {d \in cs : d.bases \cap (seeds \cup found) # {}}}
    IN IF more = found THEN found ELSE DerivedFrom(seeds, more, cs)

MetaclassNamed(cs) ==
    {c.qual_name : c \in {d \in cs : d.metaclass \in VALID_REFLEXSIVEMETA_MODULE_PATHS}}

(* C8: the legitimacy set is the union of the seed set, of every class
   reachable from the seeds over base -> subclass edges (left out when
   inherited classes are excluded) and of every class whose metaclass is a
   metaclass seed (left out when metaclass classes are excluded). *)
C8_LegitimacyIsTheUnion ==
    \A ei \in BOOLEAN, em \in BOOLEAN :
        get_valid_reflexsive_classes(classes, ei, em)
            = VALID_REFLEXSIVE_MODULE_PATHS
                \cup (IF ei THEN {} ELSE DerivedFrom(VALID_REFLEXSIVE_MODULE_PATHS, {}, classes))
                \cup (IF em THEN {} ELSE MetaclassNamed(classes))

\* a class legitimate only through a chain of two bases, and another only
\* through its metaclass
C8_Witness ==
    /\ pc = "prune_aliases"
    /\ \E c \in classes, d \in classes :
          /\ c.qual_name \in get_valid_reflexsive_classes(classes, FALSE, TRUE)
          /\ c.bases \cap VALID_REFLEXSIVE_MODULE_PATHS = {}
          /\ d.qual_name \in get_valid_reflexsive_classes(classes, TRUE, FALSE)
          /\ d.qual_name \notin get_valid_reflexsive_classes(classes, FALSE, TRUE)

(* C9: enabling an inclusion toggle never shrinks the legitimacy set,
   whatever the other toggle is. *)
C9_TogglesAreMonotonic ==
    \A other \in BOOLEAN :
        /\ get_valid_reflexsive_classes(classes, TRUE, other)
              \subseteq get_valid_reflexsive_classes(classes, FALSE, other)
        /\ get_valid_reflexsive_classes(classes, other, TRUE)
              \subseteq get_valid_reflexsive_classes(classes, other, FALSE)

\* each toggle adds a class of its own
C9_Witness ==
    /\ pc = "prune_aliases"
    /\ get_valid_reflexsive_classes(classes, TRUE, TRUE)
          # get_valid_reflexsive_classes(classes, FALSE, TRUE)
    /\ get_valid_reflexsive_classes(classes, TRUE, TRUE)
          # get_valid_reflexsive_classes(classes, TRUE, FALSE)

\* the alias declarations of cs that pass keep, each named by where it
\* stands: file, class row, function row, decorator row
AliasesIn(cs, keep(_)) ==
    UNION {UNION {{<<c.path, c.row, f.row, f.aliases[i].row>> :
                      i \in {j \in DOMAIN f.aliases : keep(f.aliases[j])}} :
                  f \in c.functions} : c \in cs}

AfterAliasPruning == pc \in {"prune_functions", "prune_classes", "done"}

\* the legitimacy set pruning must use: the full union over the scan
FullLegitimacy == get_valid_reflexsive_classes(Scanned, FALSE, FALSE)

(* C10 as stated: after pruning an alias remains iff the class part of its
   decorator name is in the legitimacy set (full union, whatever the
   toggles) or its unqualified class name, the last part of that class
   part, is the simple name of a member. *)
C10_KeptByUnqualifiedName ==
    AfterAliasPruning =>
        AliasesIn(classes, LAMBDA a : TRUE)
          = AliasesIn(Scanned, LAMBDA a :
                \/ AliasClassName(a) \in FullLegitimacy
                \/ /\ AliasClassName(a) # <<>>
                   /\ <<Last(AliasClassName(a))>> \in SimpleNames(FullLegitimacy))

(* C10, amended: after pruning an alias remains iff the class part of its
   decorator name is in the legitimacy set (full union, whatever the
   toggles) or that class part, as a whole, is the simple name of a
   member: the fallback serves a decorator written through a bare class
   name, not one that resolved into another module. *)
C10_KeptByBareName ==
    AfterAliasPruning =>
        AliasesIn(classes, LAMBDA a : TRUE)
          = AliasesIn(Scanned, LAMBDA a :
                \/ AliasClassName(a) \in FullLegitimacy
                \/ AliasClassName(a) \in SimpleNames(FullLegitimacy))

\* an alias written through the bare name of a capable class is kept,
\* under toggles that exclude everything
C10_Witness ==
    /\ Done
    /\ exclude_inherited
    /\ exclude_metaclass
    /\ \E c \in classes : \E f \in c.functions :
          /\ AliasClassName(f.aliases[1]) = <<"A">>
          /\ <<"m", "A">> \in FullLegitimacy

\* a class by where it stands: file and row
ClassKeys(cs) == {<<c.path, c.row>> : c \in cs}

\* the legitimacy set under the toggles the caller passed
CallerLegitimacy == get_valid_reflexsive_classes(Scanned, exclude_inherited, exclude_metaclass)

\* c, as scanned, has a function that keeps an alias
HasRetainedFunction(c) ==
    \E f \in c.functions : \E i \in DOMAIN f.aliases :
        AliasClassIsValid(f.aliases[i], FullLegitimacy)

(* C11: in the class set the pipeline returns, a class is present iff it
   has a retained function or its qualified name is in the legitimacy set
   of the caller's toggles, and its capability flag is true iff its
   qualified name is in that set. *)
C11_PresentAndFlagged ==
    Done =>
        /\ ClassKeys(classes)
             = ClassKeys({c \in Scanned :
                            HasRetainedFunction(c) \/ c.qual_name \in CallerLegitimacy})
        /\ \A c \in classes : c.is_valid_reflexsive <=> c.qual_name \in CallerLegitimacy

\* a class outside the set is kept, unflagged, for its function, next to a
\* capable class that has no function
C11_Witness ==
    /\ Done
    /\ \E c \in classes, d \in classes :
          /\ c.qual_name \notin CallerLegitimacy
          /\ c.functions # {}
          /\ ~c.is_valid_reflexsive
          /\ d.qual_name \in CallerLegitimacy
          /\ d.functions = {}
          /\ d.is_valid_reflexsive

\* the level a rule passes to add_warning: rule 1 is raised as INFO, the
\* rules 2 to 8 as ERROR
RuleSeverity(rule) == IF rule = 1 THEN INFO ELSE ERROR

(* C12: every diagnostic of the list has a severity at or above the
   requested threshold, a finding whose rule severity is below the
   threshold never appears, and in strict mode every diagnostic is INFO or
   ERROR, never WARNING.  The second conjunct states the same of
   add_warning for a finding of any level, WARNING included, under the
   options of the run. *)
C12_ThresholdAndStrict ==
    /\ \A j \in DOMAIN warnings :
          /\ warnings[j].level >= minimum_warning_level
          /\ RuleSeverity(warnings[j].rule) >= minimum_warning_level
          /\ strict => warnings[j].level \in {INFO, ERROR}
    /\ Range(result) \subseteq Range(warnings)
    /\ \A level \in WarningLevel :
          LET r == add_warning(warnings, Finding(<<>>, level, "None", 0, {}))
          IN IF level < minimum_warning_level
             THEN r.warnings = warnings
             ELSE /\ Len(r.warnings) = Len(warnings) + 1
                  /\ Last(r.warnings).level >= minimum_warning_level
                  /\ strict => Last(r.warnings).level \in {INFO, ERROR}

\* a strict run at the WARNING threshold that drops the INFO of a class
\* without functions and returns an ERROR
C12_Witness ==
    /\ Done
    /\ strict
    /\ minimum_warning_level = WARNING
    /\ \E c \in classes : c.functions = {}
    /\ result # <<>>
    /\ \A j \in DOMAIN result : result[j].level = ERROR

\* the arguments of the run at hand
RunOptions == Options(exit, strict, minimum_warning_level)

\* the same records, fault kinds, templates and interpolated values in the
\* same order; a severity may differ only as WARNING (in b) to ERROR (in a)
SameFindings(a, b) ==
    /\ Len(a) = Len(b)
    /\ \A j \in DOMAIN a :
          /\ [a[j] EXCEPT !.level = INFO] = [b[j] EXCEPT !.level = INFO]
          /\ \/ a[j].level = b[j].level
             \/ b[j].level = WARNING /\ a[j].level = ERROR

(* C13: for the same class set, threshold, stop-on-first-error setting and
   order of evaluation, the list returned with strict mode on holds the
   same findings, in the same order, as the list returned with strict mode
   off; only a severity may differ, WARNING becoming ERROR. *)
C13_StrictKeepsFindings ==
    Done =>
        \A sched \in Schedules(classes) :
            SameFindings(Validate(sched, Options(exit, TRUE, minimum_warning_level)),
                         Validate(sched, Options(exit, FALSE, minimum_warning_level)))

\* a strict run that returned an INFO and an ERROR
C13_Witness ==
    /\ Done
    /\ strict
    /\ \E sched \in Schedules(classes) : result = Validate(sched, RunOptions)
    /\ \E j \in DOMAIN result : result[j].level = INFO
    /\ \E j \in DOMAIN result : result[j].level = ERROR

\* the positions of ws that hold an ERROR
ErrorsAt(ws) == {j \in DOMAIN ws : ws[j].level = ERROR}

\* the smallest element of a non-empty set of numbers
Least(S) == CHOOSE x \in S : \A y \in S : x <= y

(* C14: with stop-on-first-error the run returns as soon as the first
   ERROR is recorded: the list holds at most one ERROR, as its last
   element, and is what the run without the flag had accumulated up to
   that ERROR, nothing evaluated later; when no ERROR is raised the list
   equals the one returned without the flag.  The first conjunct ties the
   run at hand to Validate. *)
C14_StopsAtFirstError ==
    Done =>
        /\ \E sched \in Schedules(classes) : result = Validate(sched, RunOptions)
        /\ exit => /\ Cardinality(ErrorsAt(result)) <= 1
                   /\ ErrorsAt(result) \subseteq {Len(result)}
        /\ \A sched \in Schedules(classes) :
              LET stopping == Validate(sched, Options(TRUE, strict, minimum_warning_level))
                  whole    == Options(FALSE, strict, minimum_warning_level)
                  acc      == RunLoops(sched, 1, <<>>, <<>>, whole).warnings
              IN IF ErrorsAt(acc) = {}
                 THEN stopping = Validate(sched, whole)
                 ELSE stopping = SubSeq(acc, 1, Least(ErrorsAt(acc)))

\* a run that stopped at an ERROR after an INFO, with more left to find
C14_Witness ==
    /\ Done
    /\ exit
    /\ Len(result) >= 2
    /\ Last(result).level = ERROR
    /\ \E sched \in Schedules(classes) :
          /\ result = Validate(sched, RunOptions)
          /\ Len(RunLoops(sched, 1, <<>>, <<>>,
                          Options(FALSE, strict, minimum_warning_level)).warnings) > Len(result)

(* C15: when the run is not cut short by stop-on-first-error, the
   returned list is in order of non-increasing severity (and holds what was
   accumulated, nothing more or less). *)
C15_SortedBySeverity ==
    (Done /\ (~exit \/ ErrorsAt(result) = {})) =>
        /\ \A i \in DOMAIN result : \A j \in DOMAIN result :
              i < j => result[i].level >= result[j].level
        /\ Len(result) = Len(warnings)
        /\ Range(result) = Range(warnings)

\* the sort moved an ERROR in front of an INFO recorded before it
C15_Witness ==
    /\ Done
    /\ ~exit
    /\ result # warnings
    /\ warnings # <<>>
    /\ Head(warnings).level = INFO
    /\ Head(result).level = ERROR

\* the functions of S in the order they are declared in the file
RECURSIVE InDeclarationOrder(_)
InDeclarationOrder(S) ==
    IF S = {} THEN <<>>
    ELSE LET first == CHOOSE f \in S : \A g \in S : f.row <= g.row
         IN <<first>> \o InDeclarationOrder(S \ {first})

\* the classes as sorted, each with its functions in declaration order
DeclarationSchedules ==
    {[i \in DOMAIN order |->
         [cls |-> order[i], funcs |-> InDeclarationOrder(order[i].functions)]] :
       order \in Orderings(classes)}

(* C16: validation evaluates classes sorted by path and qualified name,
   the functions of a class in declaration order and the aliases of a
   function in declaration order, so every run over a class set returns
   the list that this one order of evaluation gives, and with
   stop-on-first-error the same single ERROR. *)
C16_DeclarationOrder ==
    Done => \E sched \in DeclarationSchedules : result = Validate(sched, RunOptions)

MessageRead == pc = "read"

\* a back-reference whose index is not the numeral of one of 1..number of
\* records, or whose field the referenced record does not have
ReferencedRecord(w, split) ==
    IF Len(split) = 2 THEN w.info_objs[PyInt(split[1]).value] ELSE w.info_objs[1]
BadIndex(w, split) ==
    /\ Len(split) = 2
    /\ PyInt(split[1]).raised \/ PyInt(split[1]).value \notin 1..Len(w.info_objs)
BadReference(w, split) ==
    \/ BadIndex(w, split)
    \/ /\ Len(split) \in 1..2
       /\ ~BadIndex(w, split)
       /\ Last(split) \notin Attributes(ReferencedRecord(w, split).kind)

(* C17: reading the message of a diagnostic raises, and returns no string,
   whenever its template has a back-reference whose index is not one of
   1..number of records or whose field the referenced record lacks. *)
C17_BadReferenceRaises ==
    MessageRead =>
        ((\E i \in DOMAIN shown[1]._message :
               BadReference(shown[1], shown[1]._message[i]))
            => message_out[1].raised)

JustScanned == pc = "prune_aliases"

(* C18: scanning the same unchanged tree again, whatever order the files
   are met in, returns a class set equal to the first, and classes that
   compare equal have equal function sets and alias lists. *)
C18_ScanTwiceEqual ==
    JustScanned =>
        \A order \in IterationOrders(Range(tree)) :
            LET again == CollectInOrder(order, 1, {})
            IN /\ again = classes
               /\ \A c \in classes : \A d \in again :
                     ClassEq(c, d) => c.functions = d.functions

\* two files both gave classes, one of them with an aliased function
C18_Witness ==
    /\ JustScanned
    /\ \E c \in classes : \E d \in classes :
          /\ c.path # d.path
          /\ \E f \in d.functions : f.aliases # <<>>
    /\ Cardinality(IterationOrders(Range(tree))) > 1

\* every AliasInfo the scan made
ScannedAliases == UNION {UNION {Range(f.aliases) : f \in c.functions} : c \in Scanned}

SameAliasKey(a, b) ==
    /\ a.qual_name = b.qual_name
    /\ a.alias_name = b.alias_name
    /\ a.has_paren = b.has_paren

(* C19: two alias records are equal, and hash equally, exactly when
   decorator qualified name, alias name and call-syntax flag are equal,
   whatever their location and remapping; a set into which both are
   inserted then has one element. *)
C19_AliasEquality ==
    \A a \in ScannedAliases : \A b \in ScannedAliases :
        /\ AliasEq(a, b) <=> SameAliasKey(a, b)
        /\ SameAliasKey(a, b) => AliasHash(a) = AliasHash(b)
        /\ Cardinality(AliasSetAdd(AliasSetAdd({}, a), b))
              = IF SameAliasKey(a, b) THEN 1 ELSE 2

\* the same alias declared at two places, with different remappings
C19_Witness ==
    /\ pc = "prune_aliases"
    /\ \E a \in ScannedAliases : \E b \in ScannedAliases :
          SameAliasKey(a, b) /\ a.row # b.row /\ a.arg_mapping # b.arg_mapping

\* the tree without the files that cannot be read as Python source
Parseable(root) == SelectSeq(root, LAMBDA f : f.ok)

(* C20: a file that fails to parse is skipped: the scan does not raise,
   and returns the classes of the other files as if the file were absent. *)
C20_UnparseableSkipped ==
    (pc # "scan" /\ Parseable(tree) # tree) =>
        /\ pc # "raised"
        /\ JustScanned => classes = collect_classes(Parseable(tree))

MergedFrom == previous_texts[Len(previous_texts)]
LastOfBlock(text, h) ==
    CHOOSE e \in h..Len(text) :
        /\ \A j \in (h + 1)..e : text[j].indent = 1
        /\ e = Len(text) \/ text[e + 1].indent = 0

(* C22: when the text has a block for the class, the merge replaces each
   method line of the block whose name is incoming by the incoming line at
   the same position, appends the incoming methods without a match at the
   end of the block in incoming order, and leaves every other line, inside
   and outside the block, where it was. *)
C22_MergeFrame ==
    (previous_texts # <<>> /\ HasBlock(MergedFrom, class_name)) =>
        LET old     == MergedFrom
            new     == full_stub_text
            h       == CHOOSE i \in DOMAIN old :
                          /\ old[i] = ClassLine(class_name)
                          /\ \A j \in 1..(i - 1) : old[j] # ClassLine(class_name)
            e       == LastOfBlock(old, h)
            inBlock == {i \in (h + 1)..e : old[i].kind = "def"}
            matched == {i \in inBlock :
                           \E k \in DOMAIN method_stubs : method_stubs[k].name = old[i].name}
            fresh   == SelectSeq(method_stubs,
                           LAMBDA m : \A i \in inBlock : old[i].name # m.name)
        IN /\ Len(new) = Len(old) + Len(fresh)
           /\ \A i \in 1..e :
                 IF i \in matched
                 THEN \E k \in DOMAIN method_stubs :
                         /\ method_stubs[k].name = old[i].name
                         /\ new[i] = [method_stubs[k] EXCEPT !.indent = 1]
                 ELSE new[i] = old[i]
           /\ \A k \in DOMAIN fresh : new[e + k] = [fresh[k] EXCEPT !.indent = 1]
           /\ \A j \in (e + 1)..Len(old) : new[j + Len(fresh)] = old[j]

\* one merge replaced a method, kept a comment or docstring and another
\* method, appended a new method, and lines follow the block
C22_Witness ==
    /\ Len(previous_texts) = 1
    /\ HasBlock(MergedFrom, class_name)
    /\ LET old == MergedFrom
           h   == BlockStart(old, class_name)
           e   == LastOfBlock(old, h)
       IN /\ e < Len(old)
          /\ \E i \in (h + 1)..e : old[i].kind = "text" /\ full_stub_text[i] = old[i]
          /\ \E i \in (h + 1)..e : old[i].kind = "def" /\ full_stub_text[i] # old[i]
          /\ Len(full_stub_text) > Len(old)

\* the function definitions the source holds for the class record c
DefinedIn(c) ==
    UNION {{Len(cd.body) : cd \in {d \in Range(f.classes) : d.row = c.row}} :
              f \in {g \in Range(tree) : g.ok /\ g.path = c.path}}

(* C23: every function of a returned class has at least one alias, and
   until alias legitimacy pruning has run over the class set the classes
   hold every function the source defines, aliased or not. *)
C23_FunctionsPrunedAfterAliases ==
    /\ Done => \A c \in classes : \A f \in c.functions : f.aliases # <<>>
    /\ pc \in {"prune_aliases", "prune_functions"} =>
          \A c \in classes : DefinedIn(c) = {Cardinality(c.functions)}

\* a function whose only alias was pruned as illegitimate is still held
C23_Witness ==
    /\ pc = "prune_functions"
    /\ \E c \in classes : \E f \in c.functions :
          /\ f.aliases = <<>>
          /\ \E d \in Scanned : \E g \in d.functions :
                g.qual_name = f.qual_name /\ g.row = f.row /\ g.aliases # <<>>

\* the same record before and after a step
SameRecord(c, d) == c.qual_name = d.qual_name /\ c.path = d.path /\ c.row = d.row

FlagWrittenOnlyByClassPruning ==
    \A c \in classes : \A d \in classes' :
        (SameRecord(c, d) /\ c.is_valid_reflexsive # d.is_valid_reflexsive) =>
            /\ pc = "prune_classes"
            /\ d.is_valid_reflexsive

(* C24: the capability flag of every class is false until the class
   pruning step; only that step changes it, only to true, and validation
   leaves it alone. *)
C24_FlagSetOnceByClassPruning ==
    /\ [](pc \in {"scan", "prune_aliases", "prune_functions", "prune_classes"} =>
             \A c \in classes : ~c.is_valid_reflexsive)
    /\ [][FlagWrittenOnlyByClassPruning]_vars

\* validation has run over a flagged and an unflagged class
C24_Witness ==
    /\ Done /\ result # <<>>
    /\ \E c \in classes : c.is_valid_reflexsive
    /\ \E c \in classes : ~c.is_valid_reflexsive

\* a module path followed by a symbol
FullyResolved(name) == Len(name) >= 2

(* C25: every base and metaclass name stored by the scanner is a fully
   resolved qualified name or the sentinel '<unknown>' ('type' when no
   metaclass is given); a bare name is never stored as it was written. *)
C25_StoredNamesResolved ==
    JustScanned =>
        \A c \in classes :
            /\ \A b \in c.bases : b = Unknown \/ FullyResolved(b)
            /\ c.metaclass = Unknown \/ c.metaclass = <<"type">> \/ FullyResolved(c.metaclass)

\* the record the scanner made for the class definition cd of file f
RecordOf(f, cd) ==
    CHOOSE c \in classes : c.path = f.path /\ c.row = cd.row

(* C26: the classes of a file, nested ones included, are visited in
   document order, so a base written as the simple name of a class defined
   earlier in the file, and not bound by an import, is stored as that
   class's qualified name. *)
C26_EarlierLocalBaseResolved ==
    JustScanned =>
        \A f \in {g \in Range(tree) : g.ok} :
            \A i \in DOMAIN f.classes : \A j \in 1..(i - 1) :
                \A k \in DOMAIN f.classes[i].bases :
                    LET b == f.classes[i].bases[k]
                    IN (/\ b = Name(f.classes[j].name)
                        /\ ~HasImport(FileImports(f), b.parts))
                       => (get_module_name(f.path) \o b.parts)
                              \in RecordOf(f, f.classes[i]).bases

(* C27: the name stored for metaclass=e is the name that would be stored
   for e written as a base of the same class, and a class without the
   keyword stores 'type'. *)
C27_MetaclassResolvedAsBase ==
    JustScanned =>
        \A f \in {g \in Range(tree) : g.ok} :
            LET walk == WalkOrder(f.classes)
            IN \A i \in DOMAIN walk :
                  RecordOf(f, walk[i]).metaclass =
                     IF walk[i].metaclass = <<>> THEN <<"type">>
                     ELSE ResolveBase(walk[i].metaclass[1], FileImports(f),
                                      {walk[j].name : j \in 1..i}, get_module_name(f.path))

\* the alias records the classes hold now, and the decorators of the source
CurrentAliases == UNION {UNION {Range(f.aliases) : f \in c.functions} : c \in classes}
SourceDecorators ==
    UNION {UNION {UNION {Range(fd.decorator_list) : fd \in Range(cd.body)} :
                     cd \in Range(file.classes)} : file \in Range(tree)}

(* C28: an alias record carries a remapping (not None) exactly when its
   declaration used call syntax, so an alias with a non-empty remapping
   that reaches validation, after any pruning, has call syntax. *)
C28_RemappingIffCallSyntax ==
    /\ \A a \in CurrentAliases :
          /\ ~a.arg_mapping.isNone <=> a.has_paren
          /\ a.arg_mapping.items # <<>> => a.has_paren
    /\ JustScanned =>
          \A a \in CurrentAliases : \E d \in SourceDecorators :
              d.row = a.row /\ d.call = a.has_paren /\ (d.call <=> ~a.arg_mapping.isNone)

\* validation has read an alias with a non-empty remapping
C28_Witness ==
    /\ Done
    /\ \E a \in CurrentAliases : a.arg_mapping.items # <<>> /\ a.has_paren

\* how often name was put on the deque
TimesEnqueued(name) == Cardinality({i \in DOMAIN enqueued : enqueued[i] = name})

\* the names reachable from the targets by one or more base-to-subclass edges
RECURSIVE ReachableWithin(_, _)
ReachableWithin(from, n) ==
    LET direct == {c.qual_name : c \in {d \in classes : d.bases \cap from # {}}}
    IN IF n = 0 THEN direct
       ELSE direct \cup ReachableWithin(direct, n - 1)
Reachable == ReachableWithin(target_set, Cardinality(classes))

BfsDone == pc = "bfs_done"

(* C29: the search terminates for every finite class set, each qualified
   name is enqueued at most once, and the result is exactly the names
   reachable from the targets by one or more base-to-subclass edges. *)
C29_EnqueuedOnce ==
    /\ <>BfsDone
    /\ [](\A name \in GraphNames : TimesEnqueued(name) <= 1)
    /\ [](BfsDone => found_names = Reachable)

(* C29 as the code has it: the search terminates, the loop enqueues a name
   at most once (a target, enqueued at the start, once more if it is
   reachable), and the result is exactly the reachable names. *)
C29_LoopEnqueuesOnce ==
    /\ <>BfsDone
    /\ [](\A name \in GraphNames :
             TimesEnqueued(name) <= (IF name \in target_set THEN 2 ELSE 1))
    /\ [](\A name \in GraphNames :
             Cardinality({i \in (Cardinality(target_set) + 1)..Len(enqueued) :
                             enqueued[i] = name}) <= 1)
    /\ [](BfsDone => /\ found_names = Reachable
                     /\ found_names = get_subclass_qual_names(target_set, classes))

\* a cycle through a target, and two records with one name
C29_Witness ==
    /\ BfsDone
    /\ \E t \in target_set : t \in found_names /\ TimesEnqueued(t) = 2
    /\ \E c \in classes : \E d \in classes : c # d /\ c.qual_name = d.qual_name

Echoed == pc = "echoed"

(* C30: for every class set the scanner and resolver produce and every
   combination of threshold, strict and stop-on-first-error, validation
   returns its list and reading the message of every returned diagnostic
   succeeds. *)
C30_EveryMessageReadable ==
    Echoed => \A i \in DOMAIN message_out : ~message_out[i].raised

====
